---- MODULE Spec2Model ----
(***************************************************************************)
(* A model of internals-js/src/definitions.ts: the mutable graph of named  *)
(* types, fields, arguments, directive definitions, root types, union      *)
(* members and interface implementations owned by a Schema.                *)
(*                                                                         *)
(* Objects are addressed by identifiers (strings) drawn from fixed pools.  *)
(* The whole object graph is the record st, one field per field of the     *)
(* source's classes (st.parent[e] is e._parent, st.types[s] is s._types,   *)
(* ...).  A JavaScript Map is a sequence of <<key, value>> pairs in        *)
(* insertion order; a JavaScript Set is a set.  An exception thrown by a   *)
(* call is the field exc of the record the call's operator returns: every  *)
(* operator that models a statement leaves a record whose exc is set       *)
(* untouched, so that the statements after a throw are skipped and the     *)
(* mutations made before it are kept, as in the source.                    *)
(***************************************************************************)
EXTENDS Integers, Sequences, FiniteSets, TLC

VARIABLES st, call, nOps

vars == <<st, call, nOps>>

None == "none"

(***************************************************************************)
(* Bounds of the model.                                                    *)
(***************************************************************************)
\* Number of public operations in one behaviour of Spec, of SpecRefs and of
\* SpecReg.
MaxOps == 3
MaxRefOps == 4
MaxRegOps == 3
\* Number of public operations in one behaviour of SpecVal.
MaxValOps == 4
\* Number of public operations in one behaviour of SpecDir.
MaxDirOps == 4
\* Number of public operations in one behaviour of SpecClone.
MaxCloneOps == 4
\* Number of public operations in one behaviour of SpecKind.
MaxKindOps == 4
MaxExtOps == 5
MaxServiceOps == 5

(***************************************************************************)
(* The object pools.                                                       *)
(***************************************************************************)
Schemas == {"S1", "S2"}

SchemaDefinitionOf == [S1 |-> "SD1", S2 |-> "SD2"]
SchemaDefinitions == {"SD1", "SD2"}

\* BuiltIns.defaultGraphQLBuiltInTypes, one object per schema.
defaultGraphQLBuiltInTypes == <<"Int", "Float", "String", "Boolean", "ID">>
BuiltInScalarOf ==
  [S1 |-> [Int |-> "S1_Int", Float |-> "S1_Float", String |-> "S1_String",
           Boolean |-> "S1_Boolean", ID |-> "S1_ID"],
   S2 |-> [Int |-> "S2_Int", Float |-> "S2_Float", String |-> "S2_String",
           Boolean |-> "S2_Boolean", ID |-> "S2_ID"]]
BuiltInScalars ==
  {BuiltInScalarOf[s][defaultGraphQLBuiltInTypes[i]] : s \in Schemas, i \in 1..5}

\* The types a caller constructs: new ObjectType("Query"), new ScalarType("BX", true), ...
\* and the types newNamedType constructs for a clone (cO1 for O1, ...).
ObjectTypes == {"O1", "O2", "cO1", "BO", "O3"}
InterfaceTypes == {"I1", "cI1"}
UnionTypes == {"U1", "cU1"}
EnumTypes == {"E1", "cE1"}
InputObjectTypes == {"N1", "cN1"}
UserScalars == {"X1", "BX"}
UserTypes ==
  ObjectTypes \cup InterfaceTypes \cup UnionTypes \cup EnumTypes
    \cup InputObjectTypes \cup UserScalars
NamedTypes == BuiltInScalars \cup UserTypes
FieldBasedTypes == ObjectTypes \cup InterfaceTypes

\* The name given to each type's constructor.
ConstructedTypeName ==
  [O1 |-> "Query", O2 |-> "A", I1 |-> "I", U1 |-> "Subscription", E1 |-> "E",
   N1 |-> "In", X1 |-> "String", BX |-> "BX", BO |-> "_Service", O3 |-> "_Service",
   cO1 |-> "Query", cI1 |-> "I", cU1 |-> "Subscription", cE1 |-> "E", cN1 |-> "In",
   S1_Int |-> "Int", S1_Float |-> "Float", S1_String |-> "String",
   S1_Boolean |-> "Boolean", S1_ID |-> "ID",
   S2_Int |-> "Int", S2_Float |-> "Float", S2_String |-> "String",
   S2_Boolean |-> "Boolean", S2_ID |-> "ID"]

\* type.kind
KindOf(t) ==
  CASE t \in ObjectTypes -> "ObjectType"
    [] t \in InterfaceTypes -> "InterfaceType"
    [] t \in UnionTypes -> "UnionType"
    [] t \in EnumTypes -> "EnumType"
    [] t \in InputObjectTypes -> "InputObjectType"
    [] OTHER -> "ScalarType"

\* FieldDefinition objects: those a caller constructs, and the __typename field
\* each object, interface and union type creates when it is attached.
typenameFieldName == "__typename"
UserFields == {"F1", "F2", "cF1", "F3", "F4", "BF1", "BF2"}
TypenameFieldOf ==
  [O1 |-> "tn_O1", O2 |-> "tn_O2", I1 |-> "tn_I1", cO1 |-> "tn_cO1", cI1 |-> "tn_cI1",
   BO |-> "tn_BO", O3 |-> "tn_O3"]
\* A union creates a new __typename field object at every attachment.
UnionTypenameFields ==
  [U1 |-> <<"tn_U1_a", "tn_U1_b", "tn_U1_c">>,
   cU1 |-> <<"tn_cU1_a", "tn_cU1_b", "tn_cU1_c">>]
TypenameFields ==
  {TypenameFieldOf[t] : t \in FieldBasedTypes}
    \cup {UnionTypenameFields[u][i] : u \in UnionTypes, i \in 1..3}
FieldDefinitions == UserFields \cup TypenameFields
InputFieldDefinitions == {"G1", "cG1"}

\* DirectiveDefinition objects: the built-ins of each schema, and those a
\* caller constructs.
defaultGraphQLBuiltInDirectives == <<"include", "skip", "deprecated", "specifiedBy">>
BuiltInDirectiveOf ==
  [S1 |-> [include |-> "S1_include", skip |-> "S1_skip",
           deprecated |-> "S1_deprecated", specifiedBy |-> "S1_specifiedBy"],
   S2 |-> [include |-> "S2_include", skip |-> "S2_skip",
           deprecated |-> "S2_deprecated", specifiedBy |-> "S2_specifiedBy"]]
BuiltInDirectives ==
  {BuiltInDirectiveOf[s][defaultGraphQLBuiltInDirectives[i]] : s \in Schemas, i \in 1..4}
UserDirectives == {"D1", "D2", "DB", "DC", "cD1", "cDC"}
DirectiveDefinitions == BuiltInDirectives \cup UserDirectives

\* ArgumentDefinition objects.
BuiltInArgumentOf ==
  [S1_include |-> "S1_include_if", S1_skip |-> "S1_skip_if",
   S1_deprecated |-> "S1_deprecated_reason", S1_specifiedBy |-> "S1_specifiedBy_url",
   S2_include |-> "S2_include_if", S2_skip |-> "S2_skip_if",
   S2_deprecated |-> "S2_deprecated_reason", S2_specifiedBy |-> "S2_specifiedBy_url"]
BuiltInArguments == {BuiltInArgumentOf[d] : d \in BuiltInDirectives}
UserArguments == {"A1", "A2", "A3", "cA1"}
ArgumentDefinitions == BuiltInArguments \cup UserArguments

EnumValues == {"V1", "V2", "cV1"}

\* Objects created by the operations themselves (new RootType, new UnionMember,
\* new InterfaceImplementation), taken from these pools in order.
RootTypePool == <<"R1", "R2", "R3", "R4", "R5", "R6">>
UnionMemberPool == <<"M1", "M2", "M3", "M4", "M5", "M6">>
InterfaceImplementationPool == <<"P1", "P2", "P3", "P4", "P5", "P6">>
RootTypes == {RootTypePool[i] : i \in 1..Len(RootTypePool)}
UnionMembers == {UnionMemberPool[i] : i \in 1..Len(UnionMemberPool)}
InterfaceImplementations ==
  {InterfaceImplementationPool[i] : i \in 1..Len(InterfaceImplementationPool)}

\* Directive objects (the applications), created by applyDirective, and
\* Extension objects, created by newExtension, taken from these pools in order.
DirectivePool == <<"W1", "W2", "W3", "W4", "W5", "W6">>
ExtensionPool == <<"Z1", "Z2", "Z3", "Z4", "Z5", "Z6">>
Directives == {DirectivePool[i] : i \in 1..Len(DirectivePool)}
Extensions == {ExtensionPool[i] : i \in 1..Len(ExtensionPool)}

\* The name given to the constructor of every other named element.
ConstructedName ==
  [F1 |-> "f", F2 |-> "f", G1 |-> "g", A1 |-> "x", A2 |-> "x", A3 |-> "reason",
   V1 |-> "v", V2 |-> "v", D1 |-> "d", D2 |-> "deprecated", DB |-> "db",
   DC |-> "core",
   cF1 |-> "f", cG1 |-> "g", cA1 |-> "x", cV1 |-> "v", cD1 |-> "d", cDC |-> "core",
   F3 |-> "sdl", F4 |-> "n", BF1 |-> "sdl", BF2 |-> "n",
   tn_BO |-> "__typename", tn_O3 |-> "__typename",
   tn_cO1 |-> "__typename", tn_cI1 |-> "__typename", tn_cU1_a |-> "__typename",
   tn_cU1_b |-> "__typename", tn_cU1_c |-> "__typename",
   tn_O1 |-> "__typename", tn_O2 |-> "__typename", tn_I1 |-> "__typename",
   tn_U1_a |-> "__typename", tn_U1_b |-> "__typename", tn_U1_c |-> "__typename",
   S1_include |-> "include", S1_skip |-> "skip", S1_deprecated |-> "deprecated",
   S1_specifiedBy |-> "specifiedBy", S2_include |-> "include", S2_skip |-> "skip",
   S2_deprecated |-> "deprecated", S2_specifiedBy |-> "specifiedBy",
   S1_include_if |-> "if", S1_skip_if |-> "if", S1_deprecated_reason |-> "reason",
   S1_specifiedBy_url |-> "url", S2_include_if |-> "if", S2_skip_if |-> "if",
   S2_deprecated_reason |-> "reason", S2_specifiedBy_url |-> "url"]

\* The isBuiltIn flag given to the constructor (types, fields, directive definitions).
IsBuiltIn(e) ==
  e \in BuiltInScalars \cup {"BX", "BO"} \cup TypenameFields \cup {"BF1", "BF2"}
         \cup BuiltInDirectives \cup {"DB"}

TypedElements == FieldDefinitions \cup InputFieldDefinitions \cup ArgumentDefinitions
ExtensionMembers == RootTypes \cup UnionMembers \cup InterfaceImplementations
\* Every instance of SchemaElement.
SchemaElements ==
  SchemaDefinitions \cup NamedTypes \cup TypedElements \cup EnumValues
    \cup DirectiveDefinitions
\* The elements that have ofExtension and setOfExtension, and those that have
\* extensions and addExtension.
Markable ==
  ExtensionMembers \cup FieldDefinitions \cup InputFieldDefinitions \cup EnumValues
    \cup Directives
Extendable == NamedTypes \cup SchemaDefinitions
\* Every instance of Element.
Elements == SchemaElements \cup ExtensionMembers \cup Directives

allSchemaRootKinds == <<"query", "mutation", "subscription">>

(***************************************************************************)
(* JavaScript Map (MapWithCachedArrays wraps one): a sequence of           *)
(* <<key, value>> pairs in insertion order.                                *)
(***************************************************************************)
MapKeys(m) == [i \in 1..Len(m) |-> m[i][1]]
MapValues(m) == [i \in 1..Len(m) |-> m[i][2]]
MapHas(m, k) == \E i \in 1..Len(m) : m[i][1] = k
MapGet(m, k) ==
  IF MapHas(m, k) THEN m[CHOOSE i \in 1..Len(m) : m[i][1] = k][2] ELSE None
\* Map.set keeps the position of a key that is already present.
MapSet(m, k, v) ==
  IF MapHas(m, k)
  THEN [i \in 1..Len(m) |-> IF m[i][1] = k THEN <<k, v>> ELSE m[i]]
  ELSE Append(m, <<k, v>>)
MapDelete(m, k) == SelectSeq(m, LAMBDA kv : kv[1] # k)
Range(s) == {s[i] : i \in 1..Len(s)}

(***************************************************************************)
(* Type references: a named type, or one wrapper around it.                *)
(***************************************************************************)
NoType == <<None, None>>
Named(t) == <<"NamedType", t>>
ListType(t) == <<"ListType", t>>
NonNullType(t) == <<"NonNullType", t>>
\* baseType(type)
baseType(ty) == ty[2]

\* isOutputType(type)
isOutputType(ty) ==
  KindOf(baseType(ty)) \in
    {"ScalarType", "ObjectType", "UnionType", "EnumType", "InterfaceType"}

\* isInputType(type)
isInputType(ty) ==
  KindOf(baseType(ty)) \in {"ScalarType", "EnumType", "InputObjectType"}

\* checkDefaultSchemaRoot(type), given the type's kind and name
checkDefaultSchemaRoot(kind, name) ==
  IF kind # "ObjectType" THEN None
  ELSE CASE name = "Query" -> "query"
         [] name = "Mutation" -> "mutation"
         [] name = "Subscription" -> "subscription"
         [] OTHER -> None

(***************************************************************************)
(* Exceptions.  The kinds of error a call ends with:                       *)
(*   detached     "Cannot modify detached element"                         *)
(*   builtin      "Cannot modify built-in ..." / "Cannot add built-in ..." *)
(*   exists       "... already exists ..."                                 *)
(*   otherSchema  "... it is attached to another schema"                   *)
(*   unknown      a name that resolves to nothing                          *)
(*   kind         a name or type of the wrong kind                         *)
(*   validation   the errors validate() collected                          *)
(*   assert       a failed assert(...) of the source                       *)
(*   typeError    a property read on undefined (a JavaScript TypeError)    *)
(*   duplicate    "Invalid duplicate application of the @core feature",    *)
(*                "Duplicate inclusion of feature ..."                     *)
(*   version      "Schema uses unknown version ... of the core spec"       *)
(*   url          what FeatureUrl.parse throws                             *)
(*   extension    "Cannot add extension ...: it is already added to       *)
(*                another type", "Cannot mark ... as part of the provided  *)
(*                extension ..."                                           *)
(* Every operator below that models statements takes the record h the      *)
(* statements before it left and returns h itself when h.exc is set.       *)
(***************************************************************************)
Ok(h) == h.exc = None
\* throw e: the call returns nothing
Throw(h, e) == IF Ok(h) THEN [h EXCEPT !.exc = e, !.ret = {}] ELSE h
\* if (cond) throw e
ThrowIf(h, cond, e) == IF Ok(h) /\ cond THEN [h EXCEPT !.exc = e, !.ret = {}] ELSE h
\* return v, for an element v; ret is the set of the elements returned.
Return(h, v) == IF Ok(h) THEN [h EXCEPT !.ret = {v}] ELSE h
\* return vs, for an array of the elements vs
ReturnArray(h, vs) == IF Ok(h) THEN [h EXCEPT !.ret = vs] ELSE h
\* x.field = v
Assign(h, field, x, v) == IF Ok(h) THEN [h EXCEPT ![field][x] = v] ELSE h
\* if (cond) x.field = v
AssignIf(h, cond, field, x, v) ==
  IF Ok(h) /\ cond THEN [h EXCEPT ![field][x] = v] ELSE h
\* x.field.set(k, v), for a field that is a Map
MapSetIn(h, field, x, k, v) ==
  IF Ok(h) THEN [h EXCEPT ![field][x] = MapSet(@, k, v)] ELSE h
\* x.field.delete(k)
MapDeleteIn(h, field, x, k) ==
  IF Ok(h) THEN [h EXCEPT ![field][x] = MapDelete(@, k)] ELSE h

(***************************************************************************)
(* Element and SchemaElement: parents, the owning schema, the guards       *)
(***************************************************************************)
\* Element.isAttached
isAttached(h, e) == h.parent[e] # None

\* Element.schemaInternal: the Schema found by walking the parents, or None.
RECURSIVE schemaInternal(_, _)
schemaInternal(h, e) ==
  IF h.parent[e] = None THEN None
  ELSE IF h.parent[e] \in Schemas THEN h.parent[e]
  ELSE schemaInternal(h, h.parent[e])

\* SchemaElement.isElementBuiltIn and its overrides in BaseNamedType and
\* FieldDefinition (DirectiveDefinition has the flag but no override).
isElementBuiltIn(e) ==
  e \in NamedTypes \cup FieldDefinitions /\ IsBuiltIn(e)

\* Schema.canModifyBuiltIn
canModifyBuiltIn(h, s) == ~h.isConstructed[s]

\* The loop of SchemaElement.checkUpdate: this element or one of its parents
\* (up to the schema) is a built-in.
RECURSIVE isBuiltInOrPartOf(_, _)
isBuiltInOrPartOf(h, e) ==
  IF e \notin SchemaElements THEN FALSE
  ELSE isElementBuiltIn(e) \/ isBuiltInOrPartOf(h, h.parent[e])

\* SchemaElement.checkUpdate(addedElement?), with Element.checkUpdate; added is
\* the added element, or the base type of the added type, or None.
checkUpdate(h, e, added) ==
  IF ~Ok(h) THEN h
  ELSE IF ~isAttached(h, e) THEN Throw(h, "detached")
  ELSE IF schemaInternal(h, e) = None THEN Throw(h, "assert")
  ELSE IF ~canModifyBuiltIn(h, schemaInternal(h, e)) /\ isBuiltInOrPartOf(h, e)
    THEN Throw(h, "builtin")
  ELSE IF added # None /\ isAttached(h, added)
    THEN IF schemaInternal(h, added) = None THEN Throw(h, "assert")
         ELSE IF schemaInternal(h, added) # schemaInternal(h, e)
           THEN Throw(h, "otherSchema")
         ELSE h
  ELSE h

\* SchemaElement.checkRemoval
checkRemoval(h, e) ==
  IF ~Ok(h) THEN h
  ELSE IF isElementBuiltIn(e)
    THEN IF schemaInternal(h, e) = None THEN Throw(h, "assert")
         ELSE IF ~canModifyBuiltIn(h, schemaInternal(h, e)) THEN Throw(h, "builtin")
         ELSE h
  ELSE h

\* Schema.onModification, with Schema.invalidate
SchemaOnModification(h, s) ==
  IF ~Ok(h) THEN h
  ELSE IF h.isConstructed[s]
    THEN [h EXCEPT !.isValidated[s] = FALSE,
                   !.cachedDocument[s] = FALSE,
                   !.apiSchema[s] = FALSE]
  ELSE h

\* SchemaElement.onModification
onModification(h, e) ==
  IF ~Ok(h) THEN h
  ELSE IF schemaInternal(h, e) # None
    THEN SchemaOnModification(h, schemaInternal(h, e))
  ELSE h

\* addReferenceToType(referencer, type), with BaseNamedType.addReferencer
addReferenceToType(h, referencer, ty) ==
  IF ~Ok(h) THEN h
  ELSE [h EXCEPT !.referencers[baseType(ty)] = @ \cup {referencer}]

\* removeReferenceToType(referencer, type), with BaseNamedType.removeReferencer
removeReferenceToType(h, referencer, ty) ==
  IF ~Ok(h) THEN h
  ELSE [h EXCEPT !.referencers[baseType(ty)] = @ \ {referencer}]

\* Element.setParent without the onAttached hook (the elements that do not
\* override it).
setParentNoHook(h, e, p) ==
  IF ~Ok(h) THEN h
  ELSE IF h.parent[e] # None THEN Throw(h, "assert")
  ELSE [h EXCEPT !.parent[e] = p]

\* The setter of NamedSchemaElementWithType.type after its guard: the reference
\* of the old type is removed, the type set, the reference of the new one added.
assignType(h, e, ty) ==
  IF ~Ok(h) THEN h
  ELSE LET removed == IF h.type[e] # NoType
                      THEN [h.referencers EXCEPT ![baseType(h.type[e])] = @ \ {e}]
                      ELSE h.referencers
       IN [h EXCEPT !.type[e] = ty,
                    !.referencers =
                       IF ty # NoType
                       THEN [removed EXCEPT ![baseType(ty)] = @ \cup {e}]
                       ELSE removed]

\* The setter of NamedSchemaElementWithType.type
setType(h, e, ty) ==
  assignType(IF ty # NoType THEN checkUpdate(h, e, baseType(ty)) ELSE checkRemoval(h, e),
             e, ty)

\* if (cond) e.type = ty
setTypeIf(h, cond, e, ty) == IF cond THEN setType(h, e, ty) ELSE h

(***************************************************************************)
(* Schema lookups                                                          *)
(***************************************************************************)
\* Schema.type(name)
SchemaType(h, s, name) ==
  IF MapGet(h.types[s], name) # None THEN MapGet(h.types[s], name)
  ELSE MapGet(h.builtInTypes[s], name)

\* Schema.directive(name)
SchemaDirective(h, s, name) ==
  IF MapGet(h.directives[s], name) # None THEN MapGet(h.directives[s], name)
  ELSE MapGet(h.builtInDirectives[s], name)

\* Schema.stringType()
stringType(h, s) == MapGet(h.builtInTypes[s], "String")

\* Schema.booleanType()
booleanType(h, s) == MapGet(h.builtInTypes[s], "Boolean")

\* sameType(t1, t2): the same wrappers around types of the same name.
sameType(h, t1, t2) == t1[1] = t2[1] /\ h.name[t1[2]] = h.name[t2[2]]

(***************************************************************************)
(* CoreFeature and CoreFeatures.  A feature url is one of FeatureUrls;     *)
(* FeatureUrl.parse throws for anything else.  A CoreFeature is            *)
(* <<url, nameInSchema, directive>>; schema._coreFeatures is <<>> when     *)
(* undefined and otherwise <<the CoreFeatures record>>.                    *)
(***************************************************************************)
FeatureUrls == {"core_v1", "core_v9", "featA_v1"}

\* FeatureUrl.parse(url) throws
ParseFails(url) == url \notin FeatureUrls

\* url.identity of FeatureUrl.parse(url); url.name is the same string here.
UrlIdentity(url) == IF url \in {"core_v1", "core_v9"} THEN "core" ELSE "featA"

\* CORE_VERSIONS.find(url.version) is defined
KnownCoreVersion(url) == url = "core_v1"

\* new CoreFeature(url, nameInSchema, directive)
CoreFeature(url, nameInSchema, directive) == <<url, nameInSchema, directive>>

\* CoreFeatures.add
CoreFeaturesAdd(cf, feature) ==
  [cf EXCEPT !.byAlias = MapSet(@, feature[2], feature),
             !.byIdentity = MapSet(@, UrlIdentity(feature[1]), feature)]

\* Schema.markAsCoreSchema, with the constructor of CoreFeatures: the
\* constructor throws before _coreFeatures is assigned.
markAsCoreSchema(h, s, coreItself) ==
  IF ~Ok(h) THEN h
  ELSE IF ~KnownCoreVersion(coreItself[1]) THEN Throw(h, "version")
  ELSE [h EXCEPT !.coreFeatures[s] =
          <<CoreFeaturesAdd([coreItself |-> coreItself, byAlias |-> <<>>,
                             byIdentity |-> <<>>], coreItself)>>]

\* Schema.unmarkAsCoreSchema
unmarkAsCoreSchema(h, s) == IF ~Ok(h) THEN h ELSE [h EXCEPT !.coreFeatures[s] = <<>>]

\* CoreFeatures.removeFeature
removeFeature(h, s, featureIdentity) ==
  IF ~Ok(h) \/ ~MapHas(h.coreFeatures[s][1].byIdentity, featureIdentity) THEN h
  ELSE [h EXCEPT !.coreFeatures[s][1].byIdentity = MapDelete(@, featureIdentity),
                 !.coreFeatures[s][1].byAlias =
                    MapDelete(@, MapGet(h.coreFeatures[s][1].byIdentity,
                                        featureIdentity)[2])]

(***************************************************************************)
(* Directive (an application) and SchemaElement.applyDirective             *)
(***************************************************************************)
\* The definition getter of Directive, for a directive whose schema() returns.
definitionOf(h, w) ==
  IF schemaInternal(h, w) = None THEN None
  ELSE SchemaDirective(h, schemaInternal(h, w), h.directiveName[w])

\* SchemaElement.appliedDirectivesOf(name)
appliedDirectivesOf(h, e, name) ==
  SelectSeq(h.appliedDirectives[e], LAMBDA w : h.directiveName[w] = name)

\* isCoreSpecDirectiveApplication(directive) of coreSpec.ts: the application
\* has a definition, bears the name of the core directive and its feature
\* argument is a url of the identity of the core spec.
isCoreSpecDirectiveApplication(h, w) ==
  /\ definitionOf(h, w) # None
  /\ h.directiveName[w] = "core"
  /\ ~ParseFails(h.directiveArgs[w])
  /\ UrlIdentity(h.directiveArgs[w]) = "core"

\* A maybeAddFeature that overwrites the feature of an identity it has
maybeAddFeatureOverwriting(h, s, w) ==
  IF ~Ok(h) THEN h
  ELSE IF schemaInternal(h, w) = None THEN Throw(h, "assert")
  ELSE IF definitionOf(h, w) = None
          \/ ConstructedName[definitionOf(h, w)] # h.coreFeatures[s][1].coreItself[2]
    THEN h
  ELSE IF ParseFails(h.directiveArgs[w]) THEN Throw(h, "url")
  ELSE [h EXCEPT !.coreFeatures[s][1] =
          CoreFeaturesAdd(@, CoreFeature(h.directiveArgs[w],
                                         UrlIdentity(h.directiveArgs[w]), w))]

\* CoreFeatures.maybeAddFeature(directive)
maybeAddFeature(h, s, w) ==
  IF ~Ok(h) THEN h
  ELSE IF schemaInternal(h, w) = None THEN Throw(h, "assert")
  ELSE IF definitionOf(h, w) = None
          \/ ConstructedName[definitionOf(h, w)] # h.coreFeatures[s][1].coreItself[2]
    THEN h
  ELSE IF ParseFails(h.directiveArgs[w]) THEN Throw(h, "url")
  ELSE IF MapHas(h.coreFeatures[s][1].byIdentity, UrlIdentity(h.directiveArgs[w]))
    THEN Throw(h, "duplicate")
  ELSE [h EXCEPT !.coreFeatures[s][1] =
          CoreFeaturesAdd(@, CoreFeature(h.directiveArgs[w],
                                         UrlIdentity(h.directiveArgs[w]), w))]

\* Directive.onModification
DirectiveOnModification(h, w) ==
  IF ~Ok(h) \/ ~isAttached(h, w) THEN h
  ELSE IF schemaInternal(h, w) = None THEN Throw(h, "assert")
  ELSE SchemaOnModification(h, schemaInternal(h, w))

\* Directive.setArguments
setArguments(h, w, args) ==
  DirectiveOnModification(Assign(h, "directiveArgs", w, args), w)

\* if (args) { toAdd.setArguments(args); }
setArgumentsIf(h, w, args) == IF args # None THEN setArguments(h, w, args) ELSE h

\* toAdd = new Directive(name, args ?? Object.create(null)), the next object
\* of the pool, and Element.prototype['setParent'].call(toAdd, this)
newDirective(h, e, name, args) ==
  IF ~Ok(h) THEN h
  ELSE [h EXCEPT !.nDirectives = @ + 1,
                 !.directiveName[DirectivePool[h.nDirectives + 1]] = name,
                 !.directiveArgs[DirectivePool[h.nDirectives + 1]] = args,
                 !.parent[DirectivePool[h.nDirectives + 1]] = e]

\* DirectiveDefinition.prototype['addReferencer'].call(toAdd.definition!, toAdd):
\* the getter asserts a parent and a schema, and the call on an undefined
\* definition reads _referencers of undefined.
addReferencer(h, toAdd) ==
  IF ~Ok(h) THEN h
  ELSE IF schemaInternal(h, toAdd) = None THEN Throw(h, "assert")
  ELSE IF definitionOf(h, toAdd) = None THEN Throw(h, "typeError")
  ELSE [h EXCEPT !.applications[definitionOf(h, toAdd)] = @ \cup {toAdd}]

\* The end of SchemaElement.applyDirective
pushDirective(h, e, toAdd) ==
  IF ~Ok(h) THEN h
  ELSE Return(
         onModification(
           addReferencer([h EXCEPT !.appliedDirectives[e] = Append(@, toAdd)], toAdd), e),
         toAdd)

\* const def = this.schema().directive(name); if (!def) { throw ... }
ThrowIfUnknownDirective(h, e, name) ==
  IF ~Ok(h) THEN h
  ELSE IF SchemaDirective(h, schemaInternal(h, e), name) = None THEN Throw(h, "unknown")
  ELSE h

\* SchemaElement.applyDirective(nameOrDefOrDirective, args?).  form is
\* "directive" (x is a Directive), "name" (x is a name) or "definition" (x is
\* a DirectiveDefinition); args is the feature argument, or None.
applyDirective(h, e, form, x, args) ==
  CASE form = "directive" ->
         pushDirective(setArgumentsIf(checkUpdate(h, e, x), x, args), e, x)
    [] form = "name" ->
         pushDirective(
           newDirective(ThrowIfUnknownDirective(checkUpdate(h, e, None), e, x),
                        e, x, args),
           e, DirectivePool[h.nDirectives + 1])
    [] form = "definition" ->
         pushDirective(newDirective(checkUpdate(h, e, x), e, ConstructedName[x], args),
                       e, DirectivePool[h.nDirectives + 1])

\* The end of SchemaDefinition.applyDirective, for the application applied
afterApplyDirective(h, sd, s, applied) ==
  IF ~Ok(h) THEN h
  ELSE IF isCoreSpecDirectiveApplication(h, applied)
    THEN IF h.coreFeatures[s] # <<>> THEN Throw(h, "duplicate")
         ELSE onModification(
                markAsCoreSchema(h, s, CoreFeature(h.directiveArgs[applied], "core",
                                                   applied)), sd)
  ELSE IF h.coreFeatures[s] # <<>> THEN onModification(maybeAddFeature(h, s, applied), sd)
  ELSE onModification(h, sd)

\* SchemaDefinition.applyDirective
SchemaDefinitionApplyDirective(h, sd, form, x, args) ==
  afterApplyDirective(applyDirective(h, sd, form, x, args), sd, h.parent[sd],
                      IF form = "directive" THEN x ELSE DirectivePool[h.nDirectives + 1])

\* parentDirectives.splice(parentDirectives.indexOf(w), 1)
RemoveFirst(ws, w) ==
  LET i == CHOOSE i \in 1..Len(ws) : ws[i] = w /\ \A j \in 1..(i - 1) : ws[j] # w
  IN SubSeq(ws, 1, i - 1) \o SubSeq(ws, i + 1, Len(ws))

\* if (definition && ...) removeReferencer.call(definition, this)
removeReferencer(h, w) ==
  IF definitionOf(h, w) = None THEN h
  ELSE [h EXCEPT !.applications[definitionOf(h, w)] = @ \ {w}]

\* Directive.removeInternal
removeInternal(h, w) ==
  IF ~Ok(h) THEN h
  ELSE IF h.parent[w] = None THEN Return(h, "false")
  ELSE IF schemaInternal(h, w) = None THEN Throw(h, "assert")
  ELSE IF w \notin Range(h.appliedDirectives[h.parent[w]])
    THEN Throw(removeReferencer(h, w), "assert")
  ELSE Return([removeReferencer(h, w) EXCEPT
                 !.appliedDirectives[h.parent[w]] = RemoveFirst(@, w),
                 !.parent[w] = None,
                 !.extension[w] = None],
              "true")

RECURSIVE removeEachInternal(_, _)
\* for (const d of ...appliedDirectivesOf(...)) { d.removeInternal(); }
removeEachInternal(h, ws) ==
  IF ws = <<>> THEN h
  ELSE removeEachInternal(removeInternal(h, Head(ws)), Tail(ws))

\* Directive.remove after onModification, in schema s
removeFromCoreFeatures(h, s, w) ==
  IF ~Ok(h) THEN h
  ELSE IF h.coreFeatures[s] = <<>>
          \/ h.directiveName[w] # h.coreFeatures[s][1].coreItself[2]
    THEN removeInternal(h, w)
  ELSE IF ParseFails(h.directiveArgs[w]) THEN Throw(h, "url")
  ELSE IF UrlIdentity(h.directiveArgs[w]) = UrlIdentity(h.coreFeatures[s][1].coreItself[1])
    THEN Return(
           removeEachInternal(
             unmarkAsCoreSchema(h, s),
             appliedDirectivesOf(h, SchemaDefinitionOf[s],
                                 h.coreFeatures[s][1].coreItself[2])),
           "true")
  ELSE removeInternal(removeFeature(h, s, UrlIdentity(h.directiveArgs[w])), w)

\* Directive.remove
DirectiveRemove(h, w) ==
  IF ~Ok(h) THEN h
  ELSE IF h.parent[w] = None THEN Return(h, "false")
  ELSE IF schemaInternal(h, w) = None THEN Throw(h, "assert")
  ELSE removeFromCoreFeatures(SchemaOnModification(h, schemaInternal(h, w)),
                              schemaInternal(h, w), w)

RECURSIVE removeEachDirective(_, _)
\* applied.forEach(d => d.remove())
removeEachDirective(h, ws) ==
  IF ws = <<>> THEN h
  ELSE removeEachDirective(DirectiveRemove(h, Head(ws)), Tail(ws))

\* SchemaElement.removeAppliedDirectives
removeAppliedDirectives(h, e) ==
  IF ~Ok(h) THEN h ELSE removeEachDirective(h, h.appliedDirectives[e])

(***************************************************************************)
(* DirectiveDefinition.addLocations, removeLocations                       *)
(***************************************************************************)
RECURSIVE pushLocations(_, _)
\* The loop of addLocations: a location is pushed unless it is included.
pushLocations(locs, toAdd) ==
  IF toAdd = <<>> THEN locs
  ELSE pushLocations(
         IF Head(toAdd) \in Range(locs) THEN locs ELSE Append(locs, Head(toAdd)),
         Tail(toAdd))

addLocations(h, d, locations) ==
  IF ~Ok(h) THEN h
  ELSE LET new == pushLocations(h.locations[d], locations)
       IN Return(IF new # h.locations[d]
                 THEN onModification([h EXCEPT !.locations[d] = new], d)
                 ELSE h,
                 d)

removeLocations(h, d, locations) ==
  IF ~Ok(h) THEN h
  ELSE LET new == SelectSeq(h.locations[d], LAMBDA l : l \notin Range(locations))
       IN Return(IF new # h.locations[d]
                 THEN onModification([h EXCEPT !.locations[d] = new], d)
                 ELSE h,
                 d)

(***************************************************************************)
(* remove() of arguments, enum values, fields and input fields             *)
(***************************************************************************)
\* ArgumentDefinition.remove, with removeArgumentInternal of FieldDefinition
\* and of DirectiveDefinition
ArgumentRemove(h, a) ==
  IF ~Ok(h) THEN h
  ELSE IF h.parent[a] = None THEN ReturnArray(h, {})
  ELSE LET h1 == onModification(h, a)
           h2 == MapDeleteIn(h1, "args", h.parent[a], ConstructedName[a])
           h3 == Assign(h2, "parent", a, None)
           h4 == setType(h3, a, NoType)
           h5 == Assign(h4, "defaultValue", a, None)
       IN ReturnArray(h5, {})

RECURSIVE removeEach(_, _)
\* for (const arg of this.arguments()) { arg.remove(); }
removeEach(h, argSeq) ==
  IF argSeq = <<>> THEN h
  ELSE removeEach(ArgumentRemove(h, Head(argSeq)), Tail(argSeq))

\* EnumType.removeValueInternal
removeValueInternal(h, e, v) ==
  IF ~Ok(h) THEN h
  ELSE [h EXCEPT !.values[e] = SelectSeq(@, LAMBDA x : x # v)]

\* EnumValue.remove
EnumValueRemove(h, v) ==
  IF ~Ok(h) THEN h
  ELSE IF h.parent[v] = None THEN ReturnArray(h, {})
  ELSE LET h1 == onModification(h, v)
           h2 == removeValueInternal(h1, h.parent[v], v)
           h3 == Assign(h2, "parent", v, None)
       IN ReturnArray(h3, {})

\* FieldBasedType.removeFieldInternal, called on the parent of the field: the
\* parent of the __typename field of a union is a UnionType, which has no
\* _fields.
removeFieldInternal(h, p, f) ==
  IF ~Ok(h) THEN h
  ELSE IF p \notin FieldBasedTypes THEN Throw(h, "typeError")
  ELSE [h EXCEPT !.fields[p] = MapDelete(@, ConstructedName[f])]

\* FieldDefinition.remove
FieldRemove(h, f) ==
  IF ~Ok(h) THEN h
  ELSE IF h.parent[f] = None THEN ReturnArray(h, {})
  ELSE LET h1 == removeAppliedDirectives(onModification(h, f), f)
           h2 == Assign(setType(h1, f, NoType), "extension", f, None)
           h3 == removeEach(h2, MapValues(h.args[f]))
           h4 == removeFieldInternal(h3, h.parent[f], f)
           h5 == Assign(h4, "parent", f, None)
       IN ReturnArray(h5, {})

\* InputFieldDefinition.remove, with InputObjectType.removeFieldInternal
InputFieldRemove(h, f) ==
  IF ~Ok(h) THEN h
  ELSE IF h.parent[f] = None THEN ReturnArray(h, {})
  ELSE LET h1 == onModification(h, f)
           h2 == MapDeleteIn(h1, "fields", h.parent[f], ConstructedName[f])
           h3 == Assign(h2, "parent", f, None)
           h4 == setType(h3, f, NoType)
       IN ReturnArray(h4, {})

(***************************************************************************)
(* BaseExtensionMember.remove and its removeInner overrides                *)
(***************************************************************************)
\* SchemaDefinition.removeRootType
removeRootType(h, sd, r) ==
  removeReferenceToType(MapDeleteIn(h, "roots", sd, h.rootKind[r]),
                        sd, Named(h.memberType[r]))

\* FieldBasedType.removeInterfaceImplementation
removeInterfaceImplementation(h, t, itf) ==
  removeReferenceToType(MapDeleteIn(h, "interfaceImplementations", t, h.name[itf]),
                        t, Named(itf))

\* UnionType.removeMember
removeMember(h, u, t) ==
  removeReferenceToType(MapDeleteIn(h, "members", u, h.name[t]), u, Named(t))

\* RootType.removeInner, InterfaceImplementation.removeInner,
\* UnionMember.removeInner: each calls a method of this._parent, which reads a
\* field of the parent.
removeInner(h, m) ==
  IF ~Ok(h) THEN h
  ELSE IF h.parent[m] = None THEN Throw(h, "typeError")
  ELSE IF m \in RootTypes THEN removeRootType(h, h.parent[m], m)
  ELSE IF m \in InterfaceImplementations
    THEN removeInterfaceImplementation(h, h.parent[m], h.memberType[m])
  ELSE removeMember(h, h.parent[m], h.memberType[m])

\* BaseExtensionMember.remove
ExtensionMemberRemove(h, m) ==
  LET h1 == removeInner(h, m)
      h2 == ThrowIf(h1, schemaInternal(h, m) = None, "assert")
      h3 == SchemaOnModification(h2, schemaInternal(h, m))
      h4 == Assign(h3, "extension", m, None)
      h5 == Assign(h4, "parent", m, None)
  IN h5

\* UnionType.types (types is a parameter name elsewhere) and
\* UnionType.hasTypeMember(type), for a type object
memberTypes(h, u) == {h.memberType[m] : m \in Range(MapValues(h.members[u]))}
hasTypeMember(h, u, t) == MapGet(h.members[u], h.name[t]) # None

\* FieldBasedType.interfaces and FieldBasedType.implementsInterface(type), for
\* a type object
interfaces(h, t) ==
  {h.memberType[m] : m \in Range(MapValues(h.interfaceImplementations[t]))}
implementsInterface(h, t, itf) ==
  MapGet(h.interfaceImplementations[t], h.name[itf]) # None

RECURSIVE removeEachMember(_, _)
\* for (const member of this.members()) { member.remove(); }
removeEachMember(h, ms) ==
  IF ms = <<>> THEN h
  ELSE removeEachMember(ExtensionMemberRemove(h, Head(ms)), Tail(ms))

(***************************************************************************)
(* Fields                                                                  *)
(***************************************************************************)
\* FieldBasedType.addField(nameOrField, type?).  form is "name" (a new
\* FieldDefinition f is constructed) or "object" (f is given).
addField(h, t, form, f, ty) ==
  LET h1 == checkUpdate(h, t, IF form = "name" THEN None ELSE f)
      h2 == ThrowIf(h1, MapGet(h.fields[t], ConstructedName[f]) # None, "exists")
      h3 == ThrowIf(h2, ty # NoType /\ ~isOutputType(ty), "kind")
      h4 == MapSetIn(h3, "fields", t, ConstructedName[f], f)
      h5 == setParentNoHook(h4, f, t)
      h6 == setTypeIf(h5, ty # NoType, f, ty)
  IN Return(onModification(h6, t), f)

\* InputObjectType.addField(nameOrField, type?)
InputObjectAddField(h, t, form, f, ty) ==
  LET h1 == checkUpdate(h, t, f)
      h2 == ThrowIf(h1, MapGet(h.fields[t], ConstructedName[f]) # None, "exists")
      h3 == ThrowIf(h2, ty # NoType /\ ~isInputType(ty), "kind")
      h4 == MapSetIn(h3, "fields", t, ConstructedName[f], f)
      h5 == setParentNoHook(h4, f, t)
      h6 == setTypeIf(h5, form = "name" /\ ty # NoType, f, ty)
  IN Return(onModification(h6, t), f)

(***************************************************************************)
(* The built-in modification window and the onAttached hooks               *)
(***************************************************************************)
\* Schema.runWithBuiltInModificationAllowed(fct), given the state hAfter that
\* fct leaves when it runs with the window open: the flag is restored only if
\* fct returns.
runWithBuiltInModificationAllowed(h, s, hAfter) ==
  IF ~Ok(h) THEN h
  ELSE IF Ok(hAfter) THEN [hAfter EXCEPT !.isConstructed[s] = h.isConstructed[s]]
  ELSE hAfter

\* The state in which fct starts.
windowOpen(h, s) == [h EXCEPT !.isConstructed[s] = FALSE]

\* FieldBasedType.onAttached
FieldBasedOnAttached(h, t) ==
  IF ~Ok(h) THEN h
  ELSE IF schemaInternal(h, t) = None THEN Throw(h, "assert")
  ELSE runWithBuiltInModificationAllowed(h, schemaInternal(h, t),
         addField(windowOpen(h, schemaInternal(h, t)), t, "object", TypenameFieldOf[t],
                  NonNullType(stringType(h, schemaInternal(h, t)))))

\* new FieldDefinition(typenameFieldName, true) in UnionType.onAttached: the
\* next __typename object of the union.
newTypenameField(h, u) ==
  [h EXCEPT !.typenameField[u] = UnionTypenameFields[u][h.attachments[u] + 1],
            !.attachments[u] = @ + 1]

\* UnionType.onAttached
UnionOnAttached(h, u) ==
  IF ~Ok(h) THEN h
  ELSE IF schemaInternal(h, u) = None THEN Throw(h, "assert")
  ELSE runWithBuiltInModificationAllowed(h, schemaInternal(h, u),
         setType(setParentNoHook(newTypenameField(windowOpen(h, schemaInternal(h, u)), u),
                                 UnionTypenameFields[u][h.attachments[u] + 1], u),
                 UnionTypenameFields[u][h.attachments[u] + 1],
                 NonNullType(stringType(h, schemaInternal(h, u)))))

\* The onAttached overrides
onAttached(h, e) ==
  IF e \in FieldBasedTypes THEN FieldBasedOnAttached(h, e)
  ELSE IF e \in UnionTypes THEN UnionOnAttached(h, e)
  ELSE h

\* Element.setParent
setParent(h, e, p) == onAttached(setParentNoHook(h, e, p), e)

(***************************************************************************)
(* SchemaDefinition                                                        *)
(***************************************************************************)
\* SchemaDefinition.root(rootKind)
root(h, sd, rootKind) == MapGet(h.roots[sd], rootKind)

\* new RootType(rootKind, obj): the next object of the pool.
newRootType(h, rootKind, obj) ==
  IF ~Ok(h) THEN h
  ELSE [h EXCEPT !.nRoots = @ + 1,
                 !.rootKind[RootTypePool[h.nRoots + 1]] = rootKind,
                 !.memberType[RootTypePool[h.nRoots + 1]] = obj]

\* if (prevRoot) { removeReferenceToType(this, prevRoot.type); }
removePrevRootReference(h, sd, rootKind) ==
  IF Ok(h) /\ root(h, sd, rootKind) # None
  THEN removeReferenceToType(h, sd, Named(h.memberType[root(h, sd, rootKind)]))
  ELSE h

\* SchemaDefinition.setRoot(rootKind, nameOrType).  form is "name" (x is a type
\* name) or "type" (x is an ObjectType).
setRoot(h, sd, rootKind, form, x) ==
  LET obj   == IF form = "name" THEN SchemaType(h, schemaInternal(h, sd), x) ELSE x
      toSet == RootTypePool[h.nRoots + 1]
      h1 == checkUpdate(h, sd, IF form = "name" THEN None ELSE x)
      h2 == ThrowIf(h1, form = "name" /\ obj = None, "unknown")
      h3 == ThrowIf(h2, form = "name" /\ KindOf(obj) # "ObjectType", "kind")
      h4 == newRootType(h3, rootKind, obj)
      h5 == removePrevRootReference(h4, sd, rootKind)
      h6 == MapSetIn(h5, "roots", sd, rootKind, toSet)
      h7 == setParentNoHook(h6, toSet, sd)
      h8 == addReferenceToType(h7, sd, Named(obj))
  IN Return(onModification(h8, sd), toSet)

\* SchemaDefinition.removeTypeReference: the loop over this.roots()
removeRootsOf(m, h, toRemove) ==
  SelectSeq(m, LAMBDA kv : h.memberType[kv[2]] # toRemove)

(***************************************************************************)
(* Schema.addType                                                          *)
(***************************************************************************)
\* A registration that takes a built-in type whether or not the schema is
\* constructed.
registerTypeAnyTime(h, s, t) ==
  IF ~Ok(h) THEN h
  ELSE IF ~IsBuiltIn(t) THEN [h EXCEPT !.types[s] = MapSet(@, h.name[t], t)]
  ELSE [h EXCEPT !.builtInTypes[s] = MapSet(@, h.name[t], t)]

\* if (type.isBuiltIn) { ... } else { this._types.set(type.name, type); }
registerType(h, s, t) ==
  IF ~Ok(h) THEN h
  ELSE IF ~IsBuiltIn(t) THEN [h EXCEPT !.types[s] = MapSet(@, h.name[t], t)]
  ELSE IF ~h.isConstructed[s] THEN [h EXCEPT !.builtInTypes[s] = MapSet(@, h.name[t], t)]
  ELSE Throw(h, "builtin")

\* A default root that replaces the root already set
setDefaultSchemaRootAlways(h, s, t) ==
  IF Ok(h) /\ checkDefaultSchemaRoot(KindOf(t), h.name[t]) # None
  THEN setRoot(h, SchemaDefinitionOf[s], checkDefaultSchemaRoot(KindOf(t), h.name[t]),
               "type", t)
  ELSE h

\* if (defaultSchemaRoot && !this.schemaDefinition.root(defaultSchemaRoot))
setDefaultSchemaRoot(h, s, t) ==
  IF /\ Ok(h)
     /\ checkDefaultSchemaRoot(KindOf(t), h.name[t]) # None
     /\ root(h, SchemaDefinitionOf[s], checkDefaultSchemaRoot(KindOf(t), h.name[t])) = None
  THEN setRoot(h, SchemaDefinitionOf[s], checkDefaultSchemaRoot(KindOf(t), h.name[t]),
               "type", t)
  ELSE h

\* An addType that takes over a type attached to a schema
addTypeReparenting(h, s, t) ==
  IF ~Ok(h) THEN h
  ELSE IF SchemaType(h, s, h.name[t]) # None /\ ~IsBuiltIn(SchemaType(h, s, h.name[t]))
    THEN Throw(h, "exists")
  ELSE LET h1 == registerType(h, s, t)
           h2 == setParent(Assign(h1, "parent", t, None), t, s)
           h3 == setDefaultSchemaRoot(h2, s, t)
       IN Return(SchemaOnModification(h3, s), t)

addType(h, s, t) ==
  IF ~Ok(h) THEN h
  ELSE IF SchemaType(h, s, h.name[t]) # None /\ ~IsBuiltIn(SchemaType(h, s, h.name[t]))
    THEN Throw(h, "exists")
  ELSE IF isAttached(h, t)
    THEN IF h.parent[t] = s THEN Return(h, t) ELSE Throw(h, "otherSchema")
  ELSE LET h1 == registerType(h, s, t)
           h2 == setParent(h1, t, s)
           h3 == setDefaultSchemaRoot(h2, s, t)
       IN Return(SchemaOnModification(h3, s), t)

(***************************************************************************)
(* Extensions: addExtension, newExtension, setOfExtension                  *)
(***************************************************************************)
\* Extension.setExtendedElement
setExtendedElement(h, extension, element) ==
  IF ~Ok(h) THEN h
  ELSE IF h.extendedElement[extension] # None THEN Throw(h, "assert")
  ELSE [h EXCEPT !.extendedElement[extension] = element]

\* The statements of addExtension after checkUpdate.  nExtensions counts the
\* Extension objects in use: the extension is ExtensionPool[nExtensions + 1]
\* when the caller has just constructed it.
addExtensionChecked(h, t, extension) ==
  IF ~Ok(h) THEN h
  ELSE IF extension \in h.extensions[t] THEN Return(h, extension)
  ELSE IF h.extendedElement[extension] # None THEN Throw(h, "extension")
  ELSE Return(
         onModification(
           setExtendedElement(
             [h EXCEPT !.extensions[t] = @ \cup {extension},
                       !.nExtensions = IF extension = ExtensionPool[@ + 1]
                                       THEN @ + 1 ELSE @],
             extension, t),
           t),
         extension)

\* BaseNamedType.addExtension and SchemaDefinition.addExtension
addExtension(h, t, extension) ==
  addExtensionChecked(checkUpdate(h, t, None), t, extension)

\* BaseNamedType.newExtension and SchemaDefinition.newExtension:
\* addExtension(new Extension()), the extension being the next object of the
\* pool.
newExtension(h, t) == addExtension(h, t, ExtensionPool[h.nExtensions + 1])

\* Element.checkUpdate, for the elements that are no SchemaElement
ElementCheckUpdate(h, e) ==
  IF ~Ok(h) THEN h
  ELSE IF ~isAttached(h, e) THEN Throw(h, "detached")
  ELSE h

\* A setOfExtension that marks the member with any extension
setOfExtensionOfAnyOwner(h, m, extension) ==
  IF ~Ok(h) THEN h ELSE [h EXCEPT !.extension[m] = extension]

\* The setOfExtension of BaseExtensionMember, FieldDefinition,
\* InputFieldDefinition, EnumValue and Directive, after checkUpdate; extension
\* is None for undefined.
setOfExtensionChecked(h, m, extension) ==
  IF ~Ok(h) THEN h
  ELSE IF extension # None /\ m \in Directives /\ h.parent[m] \notin Extendable
    THEN Throw(h, "extension")
  ELSE IF extension # None /\ extension \notin h.extensions[h.parent[m]]
    THEN Throw(h, "extension")
  ELSE IF m \in ExtensionMembers THEN [h EXCEPT !.extension[m] = extension]
  ELSE IF m \in Directives
    THEN DirectiveOnModification([h EXCEPT !.extension[m] = extension], m)
  ELSE onModification([h EXCEPT !.extension[m] = extension], m)

setOfExtension(h, m, extension) ==
  setOfExtensionChecked(
    IF m \in SchemaElements THEN checkUpdate(h, m, None) ELSE ElementCheckUpdate(h, m),
    m, extension)

(***************************************************************************)
(* BaseNamedType.remove                                                    *)
(***************************************************************************)
\* FieldDefinition.removeParent
removeParent(h, f) == Assign(h, "parent", f, None)

RECURSIVE removeEachField(_, _)
\* The loop over this.allFields() in FieldBasedType.removeInnerElements
removeEachField(h, fs) ==
  IF fs = <<>> THEN h
  ELSE removeEachField(
         IF IsBuiltIn(Head(fs)) THEN removeParent(h, Head(fs))
         ELSE FieldRemove(h, Head(fs)),
         Tail(fs))

RECURSIVE removeEachInputField(_, _)
\* The loop over this.fields() in InputObjectType.removeInnerElements
removeEachInputField(h, fs) ==
  IF fs = <<>> THEN h
  ELSE removeEachInputField(InputFieldRemove(h, Head(fs)), Tail(fs))

\* The removeInnerElements overrides of FieldBasedType, UnionType, EnumType,
\* InputObjectType and ScalarType
removeInnerElements(h, t) ==
  IF ~Ok(h) THEN h
  ELSE CASE t \in FieldBasedTypes ->
              removeEachField(
                removeEachMember(h, MapValues(h.interfaceImplementations[t])),
                MapValues(h.fields[t]))
         [] t \in UnionTypes -> removeEachMember(h, MapValues(h.members[t]))
         [] t \in EnumTypes -> [h EXCEPT !.values[t] = <<>>]
         [] t \in InputObjectTypes -> removeEachInputField(h, MapValues(h.fields[t]))
         [] OTHER -> h

\* The removeTypeReference overrides, called through
\* SchemaElement.removeTypeReferenceInternal.
removeTypeReference(h, r, t) ==
  IF ~Ok(h) THEN h
  ELSE CASE r \in TypedElements ->
              IF h.type[r] # NoType /\ baseType(h.type[r]) = t
              THEN [h EXCEPT !.type[r] = NoType] ELSE Throw(h, "assert")
         [] r \in FieldBasedTypes ->
              [h EXCEPT !.interfaceImplementations[r] = MapDelete(@, h.name[t])]
         [] r \in UnionTypes -> [h EXCEPT !.members[r] = MapDelete(@, h.name[t])]
         [] r \in SchemaDefinitions -> [h EXCEPT !.roots[r] = removeRootsOf(@, h, t)]
         [] OTHER -> Throw(h, "assert")

RECURSIVE removeTypeReferences(_, _, _)
\* setValues(this._referencers).map(r => ...): the referencers, in some order.
removeTypeReferences(h, rs, t) ==
  IF rs = {} \/ ~Ok(h) THEN h
  ELSE removeTypeReferences(removeTypeReference(h, CHOOSE x \in rs : TRUE, t),
                            rs \ {CHOOSE x \in rs : TRUE}, t)

\* A removeTypeInternal that deletes the name from both maps
removeTypeInternalBothMaps(h, s, t) ==
  MapDeleteIn(MapDeleteIn(h, "types", s, h.name[t]), "builtInTypes", s, h.name[t])

\* Schema.removeTypeInternal
removeTypeInternal(h, s, t) == MapDeleteIn(h, "types", s, h.name[t])

\* The end of BaseNamedType.remove: the referencers drop their reference and
\* are returned, the set is cleared and the parent unset.
removeFromReferencers(h, t) ==
  IF ~Ok(h) THEN h
  ELSE ReturnArray(Assign(Assign(removeTypeReferences(h, h.referencers[t], t),
                                 "referencers", t, {}),
                          "parent", t, None),
                   h.referencers[t])

\* BaseNamedType.remove
TypeRemove(h, t) ==
  IF ~Ok(h) THEN h
  ELSE IF h.parent[t] = None THEN ReturnArray(h, {})
  ELSE LET h1 == checkRemoval(h, t)
           h2 == onModification(h1, t)
           h3 == removeInnerElements(h2, t)
           h4 == removeTypeInternal(h3, h.parent[t], t)
       IN removeFromReferencers(removeAppliedDirectives(h4, t), t)

(***************************************************************************)
(* BaseNamedType.rename, with Schema.renameTypeInternal                    *)
(***************************************************************************)
\* this._types.set(newName, this._types.get(oldName)!);
\* this._types.delete(oldName);
renameTypeInternal(h, s, oldName, newName) ==
  IF ~Ok(h) THEN h
  ELSE [h EXCEPT !.types[s] =
          MapDelete(MapSet(@, newName, MapGet(@, oldName)), oldName)]

rename(h, t, newName) ==
  LET h1 == checkUpdate(h, t, None)
      h2 == Assign(h1, "name", t, newName)
      h3 == renameTypeInternal(h2, h.parent[t], h.name[t], newName)
  IN onModification(h3, t)

(***************************************************************************)
(* UnionType                                                               *)
(***************************************************************************)
\* new UnionMember(obj): the next object of the pool.
newUnionMember(h, obj) ==
  IF ~Ok(h) THEN h
  ELSE [h EXCEPT !.nMembers = @ + 1,
                 !.memberType[UnionMemberPool[h.nMembers + 1]] = obj]

\* toAdd = new UnionMember(obj), unless a UnionMember is given
newUnionMemberUnless(h, given, obj) == IF given THEN h ELSE newUnionMember(h, obj)

\* The end of UnionType.addType: toAdd is added unless a member of the name of
\* its type exists.
addMember(h, u, obj, toAdd) ==
  IF ~Ok(h) THEN h
  ELSE IF MapGet(h.members[u], h.name[obj]) # None
    THEN Return(h, MapGet(h.members[u], h.name[obj]))
  ELSE LET h1 == MapSetIn(h, "members", u, h.name[obj], toAdd)
           h2 == setParentNoHook(h1, toAdd, u)
           h3 == addReferenceToType(h2, u, Named(obj))
       IN Return(onModification(h3, u), toAdd)

\* UnionType.addType(nameOrTypeOrMember).  form is "name" (x is a type name),
\* "type" (x is an ObjectType) or "member" (x is a UnionMember).
UnionAddType(h, u, form, x) ==
  LET obj == IF form = "name" THEN SchemaType(h, schemaInternal(h, u), x)
             ELSE IF form = "type" THEN x
             ELSE h.memberType[x]
      toAdd == IF form = "member" THEN x ELSE UnionMemberPool[h.nMembers + 1]
      h1 == checkUpdate(h, u, IF form = "name" THEN None ELSE x)
      h2 == ThrowIf(h1, form = "name" /\ obj = None, "unknown")
      h3 == ThrowIf(h2, form = "name" /\ KindOf(obj) # "ObjectType", "kind")
      h4 == newUnionMemberUnless(h3, form = "member", obj)
  IN addMember(h4, u, obj, toAdd)

RECURSIVE removeEachType(_, _, _)
\* for (const type of this.types()) { this.removeMember(type); }
removeEachType(h, u, ms) ==
  IF ms = <<>> THEN h
  ELSE removeEachType(removeMember(h, u, h.memberType[Head(ms)]), u, Tail(ms))

\* UnionType.clearTypes
clearTypes(h, u) ==
  onModification(removeEachType(h, u, MapValues(h.members[u])), u)

(***************************************************************************)
(* FieldBasedType.addImplementedInterface(nameOrItfOrItfImpl).  form is    *)
(* "name", "itf" (x is an InterfaceType) or "impl" (x is an                *)
(* InterfaceImplementation).                                               *)
(***************************************************************************)
\* new InterfaceImplementation(itf): the next object of the pool.
newInterfaceImplementation(h, itf) ==
  IF ~Ok(h) THEN h
  ELSE [h EXCEPT !.nImpls = @ + 1,
                 !.memberType[InterfaceImplementationPool[h.nImpls + 1]] = itf]

\* toAdd = new InterfaceImplementation(itf), unless one is given
newInterfaceImplementationUnless(h, given, itf) ==
  IF given THEN h ELSE newInterfaceImplementation(h, itf)

\* The end of addImplementedInterface: toAdd is added unless an implementation
\* of the name of its interface exists.
addImplementation(h, t, itf, toAdd) ==
  IF ~Ok(h) THEN h
  ELSE IF MapGet(h.interfaceImplementations[t], h.name[itf]) # None
    THEN Return(h, MapGet(h.interfaceImplementations[t], h.name[itf]))
  ELSE LET h1 == MapSetIn(h, "interfaceImplementations", t, h.name[itf], toAdd)
           h2 == addReferenceToType(h1, t, Named(itf))
           h3 == setParentNoHook(h2, toAdd, t)
       IN Return(onModification(h3, t), toAdd)

\* The checkUpdate calls of addImplementedInterface: none when an
\* InterfaceType is given.
checkUpdateOfForm(h, t, form, x) ==
  IF form = "impl" THEN checkUpdate(h, t, x)
  ELSE IF form = "name" THEN checkUpdate(h, t, None)
  ELSE h

addImplementedInterface(h, t, form, x) ==
  LET itf == IF form = "name" THEN SchemaType(h, schemaInternal(h, t), x)
             ELSE IF form = "itf" THEN x
             ELSE h.memberType[x]
      toAdd == IF form = "impl" THEN x ELSE InterfaceImplementationPool[h.nImpls + 1]
      h1 == checkUpdateOfForm(h, t, form, x)
      h2 == ThrowIf(h1, form = "name" /\ itf = None, "unknown")
      h3 == ThrowIf(h2, form = "name" /\ KindOf(itf) # "InterfaceType", "kind")
      h4 == newInterfaceImplementationUnless(h3, form = "impl", itf)
  IN addImplementation(h4, t, itf, toAdd)

(***************************************************************************)
(* EnumType.addValue(nameOrValue)                                          *)
(***************************************************************************)
\* EnumType.value(name)
EnumValueOf(h, e, name) ==
  IF \E i \in 1..Len(h.values[e]) : ConstructedName[h.values[e][i]] = name
  THEN h.values[e][CHOOSE i \in 1..Len(h.values[e]) :
                     /\ ConstructedName[h.values[e][i]] = name
                     /\ \A j \in 1..(i - 1) : ConstructedName[h.values[e][j]] # name]
  ELSE None

\* this._values.push(toAdd)
pushValue(h, e, v) == IF ~Ok(h) THEN h ELSE [h EXCEPT !.values[e] = Append(@, v)]

\* The end of addValue: toAdd is pushed unless a value of its name exists.
addValueUnlessExisting(h, e, v) ==
  IF ~Ok(h) THEN h
  ELSE IF EnumValueOf(h, e, ConstructedName[v]) # None
    THEN Return(h, EnumValueOf(h, e, ConstructedName[v]))
  ELSE Return(onModification(setParentNoHook(pushValue(h, e, v), v, e), e), v)

addValue(h, e, form, v) ==
  addValueUnlessExisting(checkUpdate(h, e, IF form = "name" THEN None ELSE v), e, v)

(***************************************************************************)
(* Arguments                                                               *)
(***************************************************************************)
\* valueEquals(a, b): the default values of the model are strings.
valueEquals(a, b) == a = b

\* The branch of FieldDefinition.addArgument for an existing argument of the
\* name.
returnExistingArgument(h, existing, ty, defaultValue) ==
  LET h1 == ThrowIf(h, /\ ty # NoType
                       /\ h.type[existing] # NoType
                       /\ ~sameType(h, ty, h.type[existing]), "exists")
      h2 == ThrowIf(h1, /\ defaultValue # None
                        /\ \/ h.defaultValue[existing] = None
                           \/ ~valueEquals(defaultValue, h.defaultValue[existing]),
                    "exists")
  IN Return(h2, existing)

\* The branch of FieldDefinition.addArgument for a new argument.
addNewArgument(h, f, form, a, ty) ==
  LET h1 == ThrowIf(h, ty # NoType /\ ~isInputType(ty), "kind")
      h2 == MapSetIn(h1, "args", f, ConstructedName[a], a)
      h3 == setParentNoHook(h2, a, f)
      h4 == setTypeIf(h3, form = "name", a, ty)
  IN Return(onModification(h4, f), a)

\* const existing = this.argument(toAdd.name); if (existing) ...
addArgumentUnlessExisting(h, f, form, a, ty, defaultValue) ==
  IF ~Ok(h) THEN h
  ELSE IF MapGet(h.args[f], ConstructedName[a]) # None
    THEN returnExistingArgument(h, MapGet(h.args[f], ConstructedName[a]), ty, defaultValue)
  ELSE addNewArgument(h, f, form, a, ty)

\* FieldDefinition.addArgument(nameOrArg, type?, defaultValue?)
FieldAddArgument(h, f, form, a, ty, defaultValue) ==
  LET h1 == checkUpdate(h, f, IF form = "name" THEN None ELSE a)
      h2 == AssignIf(h1, form = "name", "defaultValue", a, defaultValue)
  IN addArgumentUnlessExisting(h2, f, form, a, ty, defaultValue)

\* DirectiveDefinition.addArgument(nameOrArg, type?, defaultValue?)
DirectiveAddArgument(h, d, form, a, ty, defaultValue) ==
  LET h1 == checkUpdate(h, d, IF form = "name" THEN None ELSE a)
      h2 == AssignIf(h1, form = "name", "defaultValue", a, defaultValue)
      h3 == ThrowIf(h2, MapGet(h.args[d], ConstructedName[a]) # None, "exists")
      h4 == MapSetIn(h3, "args", d, ConstructedName[a], a)
      h5 == setParentNoHook(h4, a, d)
      h6 == setTypeIf(h5, form = "name", a, ty)
  IN Return(onModification(h6, d), a)

(***************************************************************************)
(* Directive definitions                                                   *)
(***************************************************************************)
\* if (definition.isBuiltIn) { ... } else { this._directives.set(...); }
registerDirective(h, s, d) ==
  IF ~Ok(h) THEN h
  ELSE IF ~IsBuiltIn(d) THEN [h EXCEPT !.directives[s] = MapSet(@, ConstructedName[d], d)]
  ELSE IF ~h.isConstructed[s]
    THEN [h EXCEPT !.builtInDirectives[s] = MapSet(@, ConstructedName[d], d)]
  ELSE Throw(h, "builtin")

\* Schema.addDirectiveDefinition(directiveOrName)
addDirectiveDefinition(h, s, d) ==
  IF ~Ok(h) THEN h
  ELSE IF /\ SchemaDirective(h, s, ConstructedName[d]) # None
          /\ ~IsBuiltIn(SchemaDirective(h, s, ConstructedName[d]))
    THEN Throw(h, "exists")
  ELSE IF isAttached(h, d)
    THEN IF h.parent[d] = s THEN Return(h, d) ELSE Throw(h, "otherSchema")
  ELSE LET h1 == registerDirective(h, s, d)
           h2 == setParentNoHook(h1, d, s)
       IN Return(SchemaOnModification(h2, s), d)

\* Schema.removeDirectiveInternal
removeDirectiveInternal(h, s, d) == MapDeleteIn(h, "directives", s, ConstructedName[d])

\* DirectiveDefinition.remove
DirectiveDefinitionRemove(h, d) ==
  IF ~Ok(h) THEN h
  ELSE IF h.parent[d] = None THEN ReturnArray(h, {})
  ELSE LET h1 == onModification(h, d)
           h2 == removeDirectiveInternal(h1, h.parent[d], d)
           h3 == Assign(h2, "parent", d, None)
           h4 == ThrowIf(h3, h.appliedDirectives[d] # <<>>, "assert")
           h5 == removeEach(h4, MapValues(h.args[d]))
       IN ReturnArray(Assign(h5, "applications", d, {}), h.applications[d])

(***************************************************************************)
(* Validation and the cached artifacts                                     *)
(***************************************************************************)
\* The errors collected by the checks below are a sequence; a check that reads
\* a property of undefined stops there, and its sequence ends with "typeError".
Thrown(errors) == errors # <<>> /\ errors[Len(errors)] = "typeError"

\* isNonNullType(type)
isNonNullType(ty) == ty[1] = "NonNullType"

\* The comparison at the end of the loop body of ensureSameArguments
compareArgument(h, expectedArgument, foundArgument, expectedType, actualType) ==
  IF ~sameType(h, expectedType, actualType) THEN <<"argumentType">>
  ELSE IF /\ ~isNonNullType(actualType)
          /\ ~valueEquals(h.defaultValue[expectedArgument], h.defaultValue[foundArgument])
    THEN <<"argumentDefault">>
  ELSE <<>>

\* The body of the loop of BuiltIns.ensureSameArguments for one expected
\* argument.
ensureSameArgument(h, expectedArgument, foundArgument) ==
  IF foundArgument = None THEN <<"typeError">>
  ELSE IF h.type[foundArgument] = NoType \/ h.type[expectedArgument] = NoType
    THEN <<"typeError">>
  ELSE compareArgument(h, expectedArgument, foundArgument, h.type[expectedArgument],
         IF /\ isNonNullType(h.type[foundArgument])
            /\ ~isNonNullType(h.type[expectedArgument])
         THEN Named(baseType(h.type[foundArgument]))
         ELSE h.type[foundArgument])

RECURSIVE ensureEachArgument(_, _, _, _)
ensureEachArgument(h, expected, manuallyDefined, errors) ==
  IF expected = <<>> \/ Thrown(errors) THEN errors
  ELSE ensureEachArgument(h, Tail(expected), manuallyDefined,
         errors \o ensureSameArgument(h, Head(expected),
                     MapGet(h.args[manuallyDefined], ConstructedName[Head(expected)])))

\* BuiltIns.ensureSameArguments
ensureSameArguments(h, builtIn, manuallyDefined) ==
  IF Len(h.args[builtIn]) # Len(h.args[manuallyDefined]) THEN <<"arguments">>
  ELSE ensureEachArgument(h, MapValues(h.args[builtIn]), manuallyDefined, <<>>)

\* The two checks of ensureSameDirectiveStructure after ensureSameArguments
ensureRepeatableAndLocations(h, builtIn, manuallyDefined, errors) ==
  IF Thrown(errors) THEN errors
  ELSE errors
         \o (IF ~h.repeatable[builtIn] /\ h.repeatable[manuallyDefined]
             THEN <<"repeatable">> ELSE <<>>)
         \o (IF Range(h.locations[manuallyDefined]) \subseteq Range(h.locations[builtIn])
             THEN <<>> ELSE <<"locations">>)

\* BuiltIns.ensureSameDirectiveStructure
ensureSameDirectiveStructure(h, builtIn, manuallyDefined) ==
  ensureRepeatableAndLocations(h, builtIn, manuallyDefined,
    ensureSameArguments(h, builtIn, manuallyDefined))

\* FieldBasedType.fields(): the fields that are not built-in, in the order of
\* the map (the cached array is dropped at every addition and removal).
fields(h, t) == SelectSeq(MapValues(h.fields[t]), LAMBDA f : ~IsBuiltIn(f))

\* The type compared with that of the built-in field: the type of the
\* redefined field, unwrapped when it alone is non-null.
redefinedType(h, builtInField, redefinedField) ==
  IF ~isNonNullType(h.type[builtInField]) /\ isNonNullType(h.type[redefinedField])
  THEN Named(baseType(h.type[redefinedField]))
  ELSE h.type[redefinedField]

RECURSIVE ensureEachField(_, _, _, _)
\* The loop over builtIn.fields() in ensureSameTypeStructure: a missing field
\* and a field of another type return from the function.
ensureEachField(h, builtInFields, redefinedObject, errors) ==
  IF builtInFields = <<>> \/ Thrown(errors) THEN errors
  ELSE IF MapGet(h.fields[redefinedObject], ConstructedName[Head(builtInFields)]) = None
    THEN errors \o <<"missingField">>
  ELSE IF \/ h.type[Head(builtInFields)] = NoType
          \/ h.type[MapGet(h.fields[redefinedObject],
                           ConstructedName[Head(builtInFields)])] = NoType
    THEN errors \o <<"typeError">>
  ELSE IF ~sameType(h, h.type[Head(builtInFields)],
                    redefinedType(h, Head(builtInFields),
                      MapGet(h.fields[redefinedObject],
                             ConstructedName[Head(builtInFields)])))
    THEN errors \o <<"fieldType">>
  ELSE ensureEachField(h, Tail(builtInFields), redefinedObject,
         errors \o ensureSameArguments(h, Head(builtInFields),
                     MapGet(h.fields[redefinedObject],
                            ConstructedName[Head(builtInFields)])))

\* sortedMemberNames(u), as the set of the names
sortedMemberNames(h, u) ==
  {h.name[h.memberType[m]] : m \in Range(MapValues(h.members[u]))}

\* BuiltIns.ensureSameTypeStructure
ensureSameTypeStructure(h, builtIn, manuallyDefined) ==
  IF KindOf(builtIn) # KindOf(manuallyDefined) THEN <<"kind">>
  ELSE CASE KindOf(builtIn) = "ScalarType" -> <<>>
         [] KindOf(builtIn) = "ObjectType" ->
              ensureEachField(h, fields(h, builtIn), manuallyDefined, <<>>)
         [] KindOf(builtIn) = "UnionType" ->
              IF sortedMemberNames(h, builtIn) = sortedMemberNames(h, manuallyDefined)
              THEN <<>> ELSE <<"members">>
         [] OTHER -> <<"cannotRedefine">>

RECURSIVE onValidationTypes(_, _, _)
\* The first loop of BuiltIns.onValidation
onValidationTypes(h, s, types) ==
  IF types = <<>> THEN <<>>
  ELSE (IF ~IsBuiltIn(SchemaType(h, s, h.name[Head(types)]))
        THEN ensureSameTypeStructure(h, Head(types),
                                     SchemaType(h, s, h.name[Head(types)]))
        ELSE <<>>)
       \o onValidationTypes(h, s, Tail(types))

RECURSIVE onValidationDirectives(_, _, _, _)
\* The second loop of BuiltIns.onValidation
onValidationDirectives(h, s, ds, errors) ==
  IF ds = <<>> \/ Thrown(errors) THEN errors
  ELSE onValidationDirectives(h, s, Tail(ds),
         errors \o (IF ~IsBuiltIn(SchemaDirective(h, s, ConstructedName[Head(ds)]))
                    THEN ensureSameDirectiveStructure(h, Head(ds),
                           SchemaDirective(h, s, ConstructedName[Head(ds)]))
                    ELSE <<>>))

\* BuiltIns.onValidation(schema)
onValidation(h, s) ==
  onValidationDirectives(h, s, MapValues(h.builtInDirectives[s]),
    onValidationTypes(h, s, MapValues(h.builtInTypes[s])))

\* addIntrospectionFields(schema) of introspection.ts: the introspection types
\* and fields are outside the pools of this model, which only records that
\* they have been added.
addIntrospectionFields(h, s) ==
  IF ~Ok(h) THEN h ELSE [h EXCEPT !.introspection[s] = TRUE]

\* Schema.toAST
toAST(h, s) ==
  IF ~Ok(h) THEN h
  ELSE IF ~h.cachedDocument[s] THEN [h EXCEPT !.cachedDocument[s] = TRUE]
  ELSE h

\* The end of Schema.validate, given the errors collected: a TypeError inside
\* onValidation leaves the window open.
throwOrMarkValidated(h, s, errors) ==
  IF Thrown(errors) THEN Throw(windowOpen(h, s), "typeError")
  ELSE IF errors # <<>>
    THEN [h EXCEPT !.exc = "validation", !.causes = errors, !.ret = {}]
  ELSE [h EXCEPT !.isValidated[s] = TRUE]

\* The calls validate makes of the rule-checker (validateSDL, validateSchema)
\* and of the built-ins policy (onValidation), recorded in invoked.
invoke(h, sdlErrors) ==
  [h EXCEPT !.invoked =
     @ \cup (IF sdlErrors = <<>> THEN {"validateSDL", "onValidation"}
             ELSE {"validateSDL"})]

\* Schema.validate after addIntrospectionFields and toAST.  sdlErrors is what
\* validateSDL and validateSchema (the rules of graphql-js and of validate.ts)
\* report for the schema.
collectErrors(h, s, sdlErrors) ==
  IF ~Ok(h) THEN h
  ELSE throwOrMarkValidated(invoke(h, sdlErrors), s,
         IF sdlErrors = <<>> THEN onValidation(h, s) ELSE sdlErrors)

\* Schema.validate without the return of a validated schema
validateAlways(h, s, sdlErrors) ==
  IF ~Ok(h) THEN h
  ELSE collectErrors(
         toAST(runWithBuiltInModificationAllowed(h, s,
                 addIntrospectionFields(windowOpen(h, s), s)), s),
         s, sdlErrors)

\* Schema.validate
validate(h, s, sdlErrors) ==
  IF ~Ok(h) \/ h.isValidated[s] THEN h
  ELSE collectErrors(
         toAST(runWithBuiltInModificationAllowed(h, s,
                 addIntrospectionFields(windowOpen(h, s), s)), s),
         s, sdlErrors)

\* The end of Schema.toAPISchema.  apiErrors is what the validation of the
\* clone reports.
setApiSchema(h, s, apiErrors) ==
  IF ~Ok(h) THEN h
  ELSE IF apiErrors # <<>> THEN Throw(h, "validation")
  ELSE [h EXCEPT !.apiSchema[s] = TRUE]

\* Schema.toAPISchema
toAPISchema(h, s, sdlErrors, apiErrors) ==
  IF ~Ok(h) \/ h.apiSchema[s] THEN h
  ELSE setApiSchema(validate(h, s, sdlErrors), s, apiErrors)

(***************************************************************************)
(* Schema.clone and the copy functions.  No element of a schema that is    *)
(* cloned is part of an extension (ofExtension() is undefined where clone  *)
(* is called), so copyOfExtension does nothing; description and sourceAST  *)
(* are not fields of the model.                                            *)
(***************************************************************************)
\* The object each constructor call of the copy functions creates, for the
\* source object it is called for: newNamedType(type.kind, type.name),
\* new FieldDefinition(sourceField.name), new InputFieldDefinition(...), and the
\* objects the by-name forms of addArgument, addValue and
\* addDirectiveDefinition construct.
CopyOf ==
  [O1 |-> "cO1", I1 |-> "cI1", U1 |-> "cU1", E1 |-> "cE1", N1 |-> "cN1",
   F1 |-> "cF1", G1 |-> "cG1", A1 |-> "cA1", V1 |-> "cV1", D1 |-> "cD1", DC |-> "cDC"]

\* newNamedType(kind, name): the new type is of the kind of the source and
\* takes the name the source has now.
newNamedType(h, t) == Assign(h, "name", CopyOf[t], h.name[t])

\* typesToCopy(source, dest): the built-ins of source that source does not
\* shadow and that are no built-ins of dest, then source.types().
typesToCopy(h, source, dest) ==
  SelectSeq(MapValues(h.builtInTypes[source]),
            LAMBDA t : /\ ~MapHas(h.types[source], h.name[t])
                       /\ \/ SchemaType(h, dest, h.name[t]) = None
                          \/ ~IsBuiltIn(SchemaType(h, dest, h.name[t])))
    \o MapValues(h.types[source])

\* directivesToCopy(source, dest)
directivesToCopy(h, source, dest) ==
  SelectSeq(MapValues(h.builtInDirectives[source]),
            LAMBDA d : /\ ~MapHas(h.directives[source], ConstructedName[d])
                       /\ \/ SchemaDirective(h, dest, ConstructedName[d]) = None
                          \/ ~IsBuiltIn(SchemaDirective(h, dest, ConstructedName[d])))
    \o MapValues(h.directives[source])

\* copyWrapperTypeOrTypeRef(source, destParent): destParent.type(source.name),
\* under the wrapper of source.
copyWrapperTypeOrTypeRef(h, source, destParent) ==
  IF source = NoType \/ destParent = None THEN NoType
  ELSE IF source[1] = "NamedType" /\ SchemaType(h, destParent, h.name[source[2]]) = None
    THEN NoType
  ELSE <<source[1], SchemaType(h, destParent, h.name[source[2]])>>

\* dest.type = type, for the type copyWrapperTypeOrTypeRef returned: a wrapper
\* around undefined has no base type to check.
setCopiedType(h, dest, ty) ==
  IF ~Ok(h) THEN h
  ELSE IF ty[1] # None /\ ty[2] = None THEN Throw(h, "typeError")
  ELSE setType(h, dest, ty)

RECURSIVE copyEachAppliedDirective(_, _, _)
\* for (const directive of source.appliedDirectives) {
\*   dest.applyDirective(directive.name, { ...directive.arguments() }); }
copyEachAppliedDirective(h, ws, dest) ==
  IF ws = <<>> \/ ~Ok(h) THEN h
  ELSE copyEachAppliedDirective(
         IF dest \in SchemaDefinitions
         THEN SchemaDefinitionApplyDirective(h, dest, "name", h.directiveName[Head(ws)],
                                             h.directiveArgs[Head(ws)])
         ELSE applyDirective(h, dest, "name", h.directiveName[Head(ws)],
                             h.directiveArgs[Head(ws)]),
         Tail(ws), dest)

\* copyAppliedDirectives(source, dest)
copyAppliedDirectives(h, source, dest) ==
  IF ~Ok(h) THEN h ELSE copyEachAppliedDirective(h, h.appliedDirectives[source], dest)

\* copyArgumentDefinitionInner(source, dest)
copyArgumentDefinitionInner(h, source, dest) ==
  IF ~Ok(h) THEN h
  ELSE copyAppliedDirectives(
         Assign(setCopiedType(h, dest,
                              copyWrapperTypeOrTypeRef(h, h.type[source],
                                                       schemaInternal(h, dest))),
                "defaultValue", dest, h.defaultValue[source]),
         source, dest)

\* copyArgumentDefinitionInner(arg, ...) for the argument addArgument returned
copyReturnedArgument(h, arg) ==
  IF ~Ok(h) THEN h ELSE copyArgumentDefinitionInner(h, arg, CHOOSE a \in h.ret : TRUE)

RECURSIVE copyEachArgument(_, _, _)
\* for (const arg of source.arguments()) {
\*   copyArgumentDefinitionInner(arg, dest.addArgument(arg.name, type)); }
copyEachArgument(h, argSeq, dest) ==
  IF argSeq = <<>> \/ ~Ok(h) THEN h
  ELSE copyEachArgument(
         copyReturnedArgument(
           IF dest \in DirectiveDefinitions
           THEN DirectiveAddArgument(
                  h, dest, "name", CopyOf[Head(argSeq)],
                  copyWrapperTypeOrTypeRef(h, h.type[Head(argSeq)],
                                           schemaInternal(h, dest)), None)
           ELSE FieldAddArgument(
                  h, dest, "name", CopyOf[Head(argSeq)],
                  copyWrapperTypeOrTypeRef(h, h.type[Head(argSeq)],
                                           schemaInternal(h, dest)), None),
           Head(argSeq)),
         Tail(argSeq), dest)

\* copyDirectiveDefinitionInner(source, dest)
copyDirectiveDefinitionInner(h, source, dest) ==
  IF ~Ok(h) THEN h
  ELSE addLocations(
         Assign(copyEachArgument(h, MapValues(h.args[source]), dest),
                "repeatable", dest, h.repeatable[source]),
         dest, h.locations[source])

RECURSIVE copyEachDirectiveDefinition(_, _, _)
\* for (const directive of directivesToCopy(source, dest)) {
\*   copyDirectiveDefinitionInner(directive,
\*                                dest.addDirectiveDefinition(directive.name)); }
copyEachDirectiveDefinition(h, ds, dest) ==
  IF ds = <<>> \/ ~Ok(h) THEN h
  ELSE copyEachDirectiveDefinition(
         copyDirectiveDefinitionInner(addDirectiveDefinition(h, dest, CopyOf[Head(ds)]),
                                      Head(ds), CopyOf[Head(ds)]),
         Tail(ds), dest)

RECURSIVE copyEachRoot(_, _, _)
\* for (const rootType of source.roots()) {
\*   dest.setRoot(rootType.rootKind, rootType.type.name); }
copyEachRoot(h, rs, dest) ==
  IF rs = <<>> \/ ~Ok(h) THEN h
  ELSE copyEachRoot(
         setRoot(h, dest, h.rootKind[Head(rs)], "name", h.name[h.memberType[Head(rs)]]),
         Tail(rs), dest)

\* copySchemaDefinitionInner(source, dest); no schema definition of the model
\* has an extension.
copySchemaDefinitionInner(h, source, dest) ==
  IF ~Ok(h) THEN h
  ELSE copyEachAppliedDirective(copyEachRoot(h, MapValues(h.roots[source]), dest),
                                h.appliedDirectives[source], dest)

RECURSIVE copyExtensions(_, _, _)
\* copyExtensions(source, dest), for the n extensions of source:
\* dest.addExtension(new Extension()) for each.
copyExtensions(h, n, dest) ==
  IF n = 0 \/ ~Ok(h) THEN h ELSE copyExtensions(newExtension(h, dest), n - 1, dest)

\* copyFieldDefinitionInner(source, dest)
copyFieldDefinitionInner(h, source, dest) ==
  IF ~Ok(h) THEN h
  ELSE copyAppliedDirectives(
         copyEachArgument(
           setCopiedType(h, dest,
                         copyWrapperTypeOrTypeRef(h, h.type[source],
                                                  schemaInternal(h, dest))),
           MapValues(h.args[source]), dest),
         source, dest)

\* copyInputFieldDefinitionInner(source, dest)
copyInputFieldDefinitionInner(h, source, dest) ==
  IF ~Ok(h) THEN h
  ELSE copyAppliedDirectives(
         Assign(setCopiedType(h, dest,
                              copyWrapperTypeOrTypeRef(h, h.type[source],
                                                       schemaInternal(h, dest))),
                "defaultValue", dest, h.defaultValue[source]),
         source, dest)

RECURSIVE copyEachField(_, _, _)
\* for (const sourceField of source.fields()) {
\*   copyFieldDefinitionInner(sourceField,
\*                            dest.addField(new FieldDefinition(sourceField.name))); }
\* and the same loop of an input object type.
copyEachField(h, fs, dest) ==
  IF fs = <<>> \/ ~Ok(h) THEN h
  ELSE copyEachField(
         IF dest \in InputObjectTypes
         THEN copyInputFieldDefinitionInner(
                InputObjectAddField(h, dest, "object", CopyOf[Head(fs)], NoType),
                Head(fs), CopyOf[Head(fs)])
         ELSE copyFieldDefinitionInner(
                addField(h, dest, "object", CopyOf[Head(fs)], NoType),
                Head(fs), CopyOf[Head(fs)]),
         Tail(fs), dest)

RECURSIVE copyEachInterfaceImplementation(_, _, _)
\* for (const sourceImpl of source.interfaceImplementations()) {
\*   dest.addImplementedInterface(sourceImpl.interface.name); }
copyEachInterfaceImplementation(h, ps, dest) ==
  IF ps = <<>> \/ ~Ok(h) THEN h
  ELSE copyEachInterfaceImplementation(
         addImplementedInterface(h, dest, "name", h.name[h.memberType[Head(ps)]]),
         Tail(ps), dest)

RECURSIVE copyEachMember(_, _, _)
\* for (const sourceType of source.members()) { dest.addType(sourceType.type.name); }
copyEachMember(h, ms, dest) ==
  IF ms = <<>> \/ ~Ok(h) THEN h
  ELSE copyEachMember(UnionAddType(h, dest, "name", h.name[h.memberType[Head(ms)]]),
                      Tail(ms), dest)

\* copyAppliedDirectives(sourceValue, destValue) for the value addValue returned
copyReturnedValue(h, sourceValue) ==
  IF ~Ok(h) THEN h ELSE copyAppliedDirectives(h, sourceValue, CHOOSE v \in h.ret : TRUE)

RECURSIVE copyEachValue(_, _, _)
\* for (const sourceValue of source.values) {
\*   copyAppliedDirectives(sourceValue, dest.addValue(sourceValue.name)); }
copyEachValue(h, vs, dest) ==
  IF vs = <<>> \/ ~Ok(h) THEN h
  ELSE copyEachValue(
         copyReturnedValue(addValue(h, dest, "name", CopyOf[Head(vs)]), Head(vs)),
         Tail(vs), dest)

\* The switch of copyNamedTypeInner
copyInnerElements(h, source, dest) ==
  IF ~Ok(h) THEN h
  ELSE CASE KindOf(source) \in {"ObjectType", "InterfaceType"} ->
              copyEachInterfaceImplementation(
                copyEachField(h, SelectSeq(MapValues(h.fields[source]),
                                           LAMBDA f : ~IsBuiltIn(f)), dest),
                MapValues(h.interfaceImplementations[source]), dest)
         [] KindOf(source) = "UnionType" ->
              copyEachMember(h, MapValues(h.members[source]), dest)
         [] KindOf(source) = "EnumType" -> copyEachValue(h, h.values[source], dest)
         [] KindOf(source) = "InputObjectType" ->
              copyEachField(h, MapValues(h.fields[source]), dest)
         [] OTHER -> h

\* copyNamedTypeInner(source, dest); dest is undefined if dest.type(type.name)
\* found nothing.
copyNamedTypeInner(h, source, dest) ==
  IF ~Ok(h) THEN h
  ELSE IF dest = None THEN Throw(h, "typeError")
  ELSE copyInnerElements(
         copyEachAppliedDirective(
           copyExtensions(h, Cardinality(h.extensions[source]), dest),
           h.appliedDirectives[source], dest),
         source, dest)

RECURSIVE copyEachTypeShallow(_, _, _)
\* for (const type of typesToCopy(source, dest)) {
\*   dest.addType(newNamedType(type.kind, type.name)); }
copyEachTypeShallow(h, ts, dest) ==
  IF ts = <<>> \/ ~Ok(h) THEN h
  ELSE copyEachTypeShallow(addType(newNamedType(h, Head(ts)), dest, CopyOf[Head(ts)]),
                           Tail(ts), dest)

RECURSIVE copyEachTypeInner(_, _, _)
\* for (const type of typesToCopy(source, dest)) {
\*   copyNamedTypeInner(type, dest.type(type.name)!); }
copyEachTypeInner(h, ts, dest) ==
  IF ts = <<>> \/ ~Ok(h) THEN h
  ELSE copyEachTypeInner(
         copyNamedTypeInner(h, Head(ts), SchemaType(h, dest, h.name[Head(ts)])),
         Tail(ts), dest)

\* The last loop of copy, over what typesToCopy yields then
copyTypesInner(h, source, dest) ==
  IF ~Ok(h) THEN h ELSE copyEachTypeInner(h, typesToCopy(h, source, dest), dest)

\* copy(source, dest)
copy(h, source, dest) ==
  copyTypesInner(
    copySchemaDefinitionInner(
      copyEachDirectiveDefinition(
        copyEachTypeShallow(h, typesToCopy(h, source, dest), dest),
        directivesToCopy(h, source, dest), dest),
      SchemaDefinitionOf[source], SchemaDefinitionOf[dest]),
    source, dest)

\* if (this.isValidated) { cloned.validate(); }
validateIf(h, cond, s, sdlErrors) == IF cond THEN validate(h, s, sdlErrors) ELSE h

\* Schema.clone, for the schema cloned that new Schema(this.builtIns)
\* constructed; sdlErrors is what the validation of the clone reports.
clone(h, s, cloned, sdlErrors) ==
  Return(validateIf(copy(h, s, cloned), h.isValidated[s], cloned, sdlErrors), cloned)

(***************************************************************************)
(* Construction                                                            *)
(***************************************************************************)
\* The fields of every object before any constructor has run.
Blank ==
  [exc |-> None, ret |-> {}, causes |-> <<>>, invoked |-> {},
   parent |-> [e \in Elements |-> None],
   name |-> [t \in NamedTypes |-> ConstructedTypeName[t]],
   isConstructed |-> [s \in Schemas |-> FALSE],
   isValidated |-> [s \in Schemas |-> FALSE],
   cachedDocument |-> [s \in Schemas |-> FALSE],
   apiSchema |-> [s \in Schemas |-> FALSE],
   introspection |-> [s \in Schemas |-> FALSE],
   types |-> [s \in Schemas |-> <<>>],
   builtInTypes |-> [s \in Schemas |-> <<>>],
   directives |-> [s \in Schemas |-> <<>>],
   builtInDirectives |-> [s \in Schemas |-> <<>>],
   roots |-> [sd \in SchemaDefinitions |-> <<>>],
   referencers |-> [t \in NamedTypes |-> {}],
   type |-> [e \in TypedElements |-> NoType],
   fields |-> [t \in FieldBasedTypes \cup InputObjectTypes |-> <<>>],
   interfaceImplementations |-> [t \in FieldBasedTypes |-> <<>>],
   members |-> [u \in UnionTypes |-> <<>>],
   typenameField |-> [u \in UnionTypes |-> None],
   attachments |-> [u \in UnionTypes |-> 0],
   values |-> [e \in EnumTypes |-> <<>>],
   args |-> [e \in FieldDefinitions \cup DirectiveDefinitions |-> <<>>],
   defaultValue |-> [e \in ArgumentDefinitions \cup InputFieldDefinitions |-> None],
   locations |-> [d \in DirectiveDefinitions |-> <<>>],
   repeatable |-> [d \in DirectiveDefinitions |-> FALSE],
   extension |-> [m \in Markable |-> None],
   appliedDirectives |-> [e \in SchemaElements |-> <<>>],
   directiveName |-> [w \in Directives |-> None],
   directiveArgs |-> [w \in Directives |-> None],
   applications |-> [d \in DirectiveDefinitions |-> {}],
   coreFeatures |-> [s \in Schemas |-> <<>>],
   extensions |-> [t \in Extendable |-> {}],
   extendedElement |-> [x \in Extensions |-> None],
   nDirectives |-> 0, nExtensions |-> 0,
   rootKind |-> [r \in RootTypes |-> None],
   memberType |-> [m \in ExtensionMembers |-> None],
   nRoots |-> 0, nMembers |-> 0, nImpls |-> 0]

RECURSIVE addBuiltInTypes(_, _, _)
\* BuiltIns.addBuiltInTypes, with addBuiltInScalar
addBuiltInTypes(h, s, names) ==
  IF names = <<>> THEN h
  ELSE addBuiltInTypes(addType(h, s, BuiltInScalarOf[s][Head(names)]), s, Tail(names))

\* One statement of BuiltIns.addBuiltInDirectives:
\* addBuiltInDirective(schema, name).addLocations(...).addArgument(...)
addBuiltInDirective(h, s, name, locations, argType, defaultValue) ==
  DirectiveAddArgument(
    addLocations(addDirectiveDefinition(h, s, BuiltInDirectiveOf[s][name]),
                 BuiltInDirectiveOf[s][name], locations),
    BuiltInDirectiveOf[s][name], "name", BuiltInArgumentOf[BuiltInDirectiveOf[s][name]],
    argType, defaultValue)

RECURSIVE addEachBuiltInDirective(_, _, _)
\* The statements of BuiltIns.addBuiltInDirectives, one after the other; each
\* is <<name, locations, wrapper and name of the argument type, default value>>.
addEachBuiltInDirective(h, s, statements) ==
  IF statements = <<>> THEN h
  ELSE addEachBuiltInDirective(
         addBuiltInDirective(h, s, Head(statements)[1], Head(statements)[2],
           <<Head(statements)[3],
             IF Head(statements)[4] = "Boolean" THEN booleanType(h, s)
             ELSE stringType(h, s)>>,
           Head(statements)[5]),
         s, Tail(statements))

\* BuiltIns.addBuiltInDirectives
addBuiltInDirectives(h, s) ==
  addEachBuiltInDirective(h, s,
    << <<"include", <<"FIELD", "FRAGMENT_SPREAD", "INLINE_FRAGMENT">>,
         "NonNullType", "Boolean", None>>,
       <<"skip", <<"FIELD", "FRAGMENT_SPREAD", "INLINE_FRAGMENT">>,
         "NonNullType", "Boolean", None>>,
       <<"deprecated", <<"FIELD_DEFINITION", "ENUM_VALUE", "ARGUMENT_DEFINITION",
                         "INPUT_FIELD_DEFINITION">>,
         "NamedType", "String", "No longer supported">>,
       <<"specifiedBy", <<"SCALAR">>, "NonNullType", "String", None>> >>)

\* BuiltIns.addBuiltInObject, for new ObjectType(name, true) being t
addBuiltInObject(h, s, t) == addType(h, s, t)

\* BuiltIns.addBuiltInField, for new FieldDefinition(name, true) being f
addBuiltInField(h, parentType, f, ty) == addField(h, parentType, "object", f, ty)

\* addBuiltInTypes of a policy that extends BuiltIns as the federation one
\* does: after the default scalars, an object type _Service with the built-in
\* fields sdl: String and n: Int.
ServiceAddBuiltInTypes(h, s) ==
  CHOOSE h3 \in
    {addBuiltInField(h2, "BO", "BF2", Named(BuiltInScalarOf[s]["Int"])) :
       h2 \in {addBuiltInField(h1, "BO", "BF1", Named(BuiltInScalarOf[s]["String"])) :
                 h1 \in {addBuiltInObject(
                            addBuiltInTypes(h, s, defaultGraphQLBuiltInTypes), s, "BO")}}} :
    TRUE

\* The constructor of Schema, for new Schema(policy) with that policy
ServiceSchemaConstructor(h, s) ==
  LET h1 == setParentNoHook(h, SchemaDefinitionOf[s], s)
      h2 == ServiceAddBuiltInTypes(h1, s)
      h3 == addBuiltInDirectives(h2, s)
  IN [h3 EXCEPT !.isConstructed[s] = TRUE, !.ret = {}]

\* The constructor of Schema
SchemaConstructor(h, s) ==
  LET h1 == setParentNoHook(h, SchemaDefinitionOf[s], s)
      h2 == addBuiltInTypes(h1, s, defaultGraphQLBuiltInTypes)
      h3 == addBuiltInDirectives(h2, s)
  IN [h3 EXCEPT !.isConstructed[s] = TRUE, !.ret = {}]

\* The two schemas of the model, constructed one after the other.
Constructed ==
  CHOOSE h2 \in {SchemaConstructor(h1, "S2") : h1 \in {SchemaConstructor(Blank, "S1")}} :
    TRUE

\* The state after new Schema() twice; nOps is the number of operations the
\* behaviour still makes.
InitWith(budget) ==
  /\ st = Constructed
  /\ call = [op |-> "new Schema", self |-> None, form |-> None, arg |-> <<>>]
  /\ nOps = budget

Init == InitWith(MaxOps)

\* The first schema constructed with the policy above, the second with the
\* default one.
ServiceConstructed ==
  CHOOSE h2 \in {SchemaConstructor(h1, "S2") : h1 \in {ServiceSchemaConstructor(Blank, "S1")}} :
    TRUE

\* The state after new Schema(policy) and new Schema()
InitService(budget) ==
  /\ st = ServiceConstructed
  /\ call = [op |-> "new Schema", self |-> None, form |-> None, arg |-> <<>>]
  /\ nOps = budget

(***************************************************************************)
(* The public operations, one action each.  st' is the object graph the    *)
(* call leaves, st'.exc the error it threw (None if it returned) and       *)
(* st'.ret what it returned; call' records the call.                       *)
(***************************************************************************)
Begin(h) == [h EXCEPT !.exc = None, !.ret = {}, !.causes = <<>>, !.invoked = {}]

\* arg is the sequence of the arguments, a type given as its wrapper and its
\* named type.
Call(op, self, form, arg) == [op |-> op, self |-> self, form |-> form, arg |-> arg]

Step(h, c) ==
  /\ nOps > 0
  /\ st' = h
  /\ call' = c
  /\ nOps' = nOps - 1

\* e can stand for the object a by-name form constructs: nothing refers to it
\* and its fields are those the constructor sets.
Pristine(h, e) ==
  /\ ~IsBuiltIn(e)
  /\ h.parent[e] = None
  /\ e \in TypedElements => h.type[e] = NoType
  /\ e \in DOMAIN h.args => h.args[e] = <<>>
  /\ e \in DOMAIN h.defaultValue => h.defaultValue[e] = None
  /\ e \in DOMAIN h.locations => h.locations[e] = <<>>
  /\ \A t \in DOMAIN h.fields : e \notin Range(MapValues(h.fields[t]))
  /\ \A f \in DOMAIN h.args : e \notin Range(MapValues(h.args[f]))
  /\ \A t \in DOMAIN h.values : e \notin Range(h.values[t])
  /\ \A t \in DOMAIN h.referencers : e \notin h.referencers[t]

FormOk(form, e) == form = "name" => Pristine(st, e)

AddType(s, t) ==
  Step(addType(Begin(st), s, t), Call("addType", s, "object", <<t>>))

AddDirectiveDefinition(s, form, d) ==
  /\ FormOk(form, d)
  /\ Step(addDirectiveDefinition(Begin(st), s, d),
          Call("addDirectiveDefinition", s, form, <<d>>))

Rename(t, newName) ==
  Step(rename(Begin(st), t, newName), Call("rename", t, "name", <<newName>>))

RemoveType(t) ==
  Step(TypeRemove(Begin(st), t), Call("remove", t, "type", <<>>))

RemoveDirectiveDefinition(d) ==
  Step(DirectiveDefinitionRemove(Begin(st), d), Call("remove", d, "directive", <<>>))

SetRoot(sd, rootKind, form, x) ==
  Step(setRoot(Begin(st), sd, rootKind, form, x), Call("setRoot", sd, form, <<rootKind, x>>))

\* remove() of a RootType, UnionMember or InterfaceImplementation an earlier
\* call returned.
RemoveExtensionMember(m) ==
  /\ st.memberType[m] # None
  /\ Step(ExtensionMemberRemove(Begin(st), m), Call("remove", m, "member", <<>>))

AddField(t, form, f, ty) ==
  /\ FormOk(form, f)
  /\ Step(addField(Begin(st), t, form, f, ty), Call("addField", t, form, <<f>> \o ty))

AddInputField(t, form, f, ty) ==
  /\ FormOk(form, f)
  /\ Step(InputObjectAddField(Begin(st), t, form, f, ty),
          Call("addField", t, form, <<f>> \o ty))

\* element.type = ty
SetType(e, ty) ==
  Step(setType(Begin(st), e, ty), Call("type", e, "setter", ty))

RemoveField(f) ==
  Step(FieldRemove(Begin(st), f), Call("remove", f, "field", <<>>))

RemoveInputField(f) ==
  Step(InputFieldRemove(Begin(st), f), Call("remove", f, "inputField", <<>>))

AddArgument(e, form, a, ty, defaultValue) ==
  /\ FormOk(form, a)
  /\ Step(IF e \in FieldDefinitions
          THEN FieldAddArgument(Begin(st), e, form, a, ty, defaultValue)
          ELSE DirectiveAddArgument(Begin(st), e, form, a, ty, defaultValue),
          Call("addArgument", e, form, <<a>> \o ty \o <<defaultValue>>))

RemoveArgument(a) ==
  Step(ArgumentRemove(Begin(st), a), Call("remove", a, "argument", <<>>))

AddValue(e, form, v) ==
  /\ FormOk(form, v)
  /\ Step(addValue(Begin(st), e, form, v), Call("addValue", e, form, <<v>>))

RemoveValue(v) ==
  Step(EnumValueRemove(Begin(st), v), Call("remove", v, "value", <<>>))

\* UnionType.addType
AddMember(u, form, x) ==
  /\ form = "member" => st.memberType[x] # None
  /\ Step(UnionAddType(Begin(st), u, form, x), Call("addMember", u, form, <<x>>))

ClearTypes(u) ==
  Step(clearTypes(Begin(st), u), Call("clearTypes", u, None, <<>>))

AddImplementedInterface(t, form, x) ==
  /\ form = "impl" => st.memberType[x] # None
  /\ Step(addImplementedInterface(Begin(st), t, form, x),
          Call("addImplementedInterface", t, form, <<x>>))

AddLocations(d, locations) ==
  Step(addLocations(Begin(st), d, locations), Call("addLocations", d, None, locations))

RemoveLocations(d, locations) ==
  Step(removeLocations(Begin(st), d, locations),
       Call("removeLocations", d, None, locations))

Validate(s, sdlErrors) ==
  Step(validate(Begin(st), s, sdlErrors), Call("validate", s, None, sdlErrors))

ToAST(s) ==
  Step(toAST(Begin(st), s), Call("toAST", s, None, <<>>))

ToAPISchema(s, sdlErrors, apiErrors) ==
  Step(toAPISchema(Begin(st), s, sdlErrors, apiErrors),
       Call("toAPISchema", s, None, sdlErrors \o apiErrors))

\* element.applyDirective(x, args); x is a Directive an earlier call created,
\* a name or a DirectiveDefinition.
ApplyDirective(e, form, x, args) ==
  /\ form = "directive" => st.directiveName[x] # None
  /\ st.nDirectives < Len(DirectivePool)
  /\ Step(IF e \in SchemaDefinitions
          THEN SchemaDefinitionApplyDirective(Begin(st), e, form, x, args)
          ELSE applyDirective(Begin(st), e, form, x, args),
          Call("applyDirective", e, form, <<x, args>>))

\* remove() of a Directive an earlier call created
RemoveDirective(w) ==
  /\ st.directiveName[w] # None
  /\ Step(DirectiveRemove(Begin(st), w), Call("remove", w, "application", <<>>))

\* definition.repeatable = true
SetRepeatable(d) ==
  Step([Begin(st) EXCEPT !.repeatable[d] = TRUE], Call("repeatable", d, "setter", <<>>))

NewExtension(t) ==
  /\ st.nExtensions < Len(ExtensionPool)
  /\ Step(newExtension(Begin(st), t), Call("newExtension", t, None, <<>>))

\* t.addExtension(extension), for an extension some element has, or for
\* new Extension(), the next object of the pool
AddExtension(t, extension) ==
  /\ st.nExtensions < Len(ExtensionPool)
  /\ \/ st.extendedElement[extension] # None
     \/ extension = ExtensionPool[st.nExtensions + 1]
  /\ Step(addExtension(Begin(st), t, extension),
          Call("addExtension", t, None, <<extension>>))

\* m.setOfExtension(extension), for an extension some element has or for
\* undefined
SetOfExtension(m, extension) ==
  /\ IF extension = None THEN TRUE ELSE st.extendedElement[extension] # None
  /\ Step(setOfExtension(Begin(st), m, extension),
          Call("setOfExtension", m, None, <<extension>>))

\* s is as new Schema() leaves a schema, and no object that the copy functions
\* construct is in use.
Fresh(h, s) ==
  /\ \A field \in {"types", "builtInTypes", "directives", "builtInDirectives",
                   "coreFeatures", "isValidated", "cachedDocument", "apiSchema",
                   "introspection"} : h[field][s] = Constructed[field][s]
  /\ h.roots[SchemaDefinitionOf[s]] = <<>>
  /\ h.appliedDirectives[SchemaDefinitionOf[s]] = <<>>
  /\ {x \in DOMAIN CopyOf : ~Pristine(h, CopyOf[x])} = {}

\* s.clone(): cloned is the schema that new Schema() constructs, and the pools
\* hold the objects that the copy creates.
Clone(s, cloned, sdlErrors) ==
  /\ Fresh(st, cloned)
  /\ st.nRoots <= 2 /\ st.nDirectives <= 3 /\ st.nMembers <= 3
  /\ st.nImpls <= 3 /\ st.nExtensions <= 3
  /\ Step(clone(Begin(st), s, cloned, sdlErrors), Call("clone", s, "object", sdlErrors))

(***************************************************************************)
(* Specifications.  Spec makes every operation on the first schema, with   *)
(* one or two inputs each; SpecRefs makes the operations that add, replace *)
(* and remove type references; SpecReg the operations on the registries of *)
(* the two schemas.                                                        *)
(***************************************************************************)
Next ==
  \/ \E t \in {"O1", "I1", "U1", "E1", "N1"} : AddType("S1", t)
  \/ AddDirectiveDefinition("S1", "name", "D1")
  \/ \E t \in {"O1", "I1"}, ty \in {Named("S1_String"), Named("S2_String")} :
       AddField(t, "name", "F1", ty)
  \/ AddInputField("N1", "name", "G1", Named("S1_Int"))
  \/ \E e \in {"F1", "G1", "A1", "tn_O1", "S1_include_if"},
        ty \in {NonNullType("S1_Int"), NoType} : SetType(e, ty)
  \/ \E f \in {"F1", "tn_O1"} : RemoveField(f)
  \/ RemoveInputField("G1")
  \/ \E e \in {"F1", "D1", "S1_include"} :
       AddArgument(e, "name", "A1", Named("S1_Int"), None)
  \/ \E a \in {"A1", "S1_include_if"} : RemoveArgument(a)
  \/ AddValue("E1", "name", "V1")
  \/ RemoveValue("V1")
  \/ AddMember("U1", "type", "O1")
  \/ AddMember("U1", "name", "Query")
  \/ ClearTypes("U1")
  \/ AddImplementedInterface("O1", "name", "I")
  \/ AddImplementedInterface("O1", "itf", "I1")
  \/ SetRoot("SD1", "mutation", "type", "O1")
  \/ \E m \in {"R1", "R2", "M1", "P1"} : RemoveExtensionMember(m)
  \/ \E t \in {"O1", "S1_String"} : Rename(t, "B")
  \/ \E t \in {"O1", "U1", "E1", "S1_String"} : RemoveType(t)
  \/ \E d \in {"D1", "S1_include"} : RemoveDirectiveDefinition(d)
  \/ \E d \in {"D1", "S1_include"} : AddLocations(d, <<"SCALAR">>)
  \/ \E d \in {"D1", "S1_include"} : RemoveLocations(d, <<"SCALAR", "FIELD">>)
  \/ \E sdlErrors \in {<<>>, <<"sdl">>} : Validate("S1", sdlErrors)
  \/ ToAST("S1")
  \/ \E apiErrors \in {<<>>, <<"sdl">>} : ToAPISchema("S1", <<>>, apiErrors)

Spec == Init /\ [][Next]_vars

NextRefs ==
  \/ \E t \in {"O1", "O2", "U1", "I1"} : AddType("S1", t)
  \/ \E k \in {"query", "mutation", "subscription"}, x \in {"O1", "O2"} :
       SetRoot("SD1", k, "type", x)
  \/ \E k \in {"query", "mutation"}, x \in {"Query", "A"} : SetRoot("SD1", k, "name", x)
  \/ \E m \in ExtensionMembers : RemoveExtensionMember(m)
  \/ \E t \in {"O1", "O2", "I1", "U1"} : RemoveType(t)
  \/ \E t \in {"O1", "O2"}, f \in {"F1", "F2"}, ty \in {Named("O1"), ListType("O2")} :
       AddField(t, "name", f, ty)
  \/ \E f \in {"F1", "F2"}, ty \in {Named("O1"), NonNullType("O2"), NoType} : SetType(f, ty)
  \/ \E f \in {"F1", "F2"} : RemoveField(f)
  \/ \E x \in {"O1", "O2"} : AddMember("U1", "type", x)
  \/ ClearTypes("U1")
  \/ \E t \in {"O1", "O2"} : AddImplementedInterface(t, "itf", "I1")
  \/ \E t \in {"O1", "O2"}, n \in {"A", "B"} : Rename(t, n)
  \/ ToAST("S1")
  \/ Validate("S1", <<>>)

SpecRefs == InitWith(MaxRefOps) /\ [][NextRefs]_vars

NextReg ==
  \/ \E s \in Schemas, t \in {"O1", "O2", "X1", "BX", "S1_String", "U1"} : AddType(s, t)
  \/ \E s \in Schemas, d \in {"D1", "D2", "DB", "S1_include"} :
       AddDirectiveDefinition(s, "object", d)
  \/ \E s \in Schemas : AddDirectiveDefinition(s, "name", "D1")
  \/ \E t \in {"O1", "O2"}, n \in {"A", "Query"} : Rename(t, n)
  \/ \E t \in {"O1", "O2", "X1", "S1_String"} : RemoveType(t)
  \/ \E d \in {"D1", "D2", "S1_include"} : RemoveDirectiveDefinition(d)

SpecReg == InitWith(MaxRegOps) /\ [][NextReg]_vars

\* SpecVal makes the operations that redefine built-ins on the first schema,
\* and validates it.
NextVal ==
  \/ \E t \in {"O1", "X1"} : AddType("S1", t)
  \/ Rename("O1", "String")
  \/ \E d \in {"D1", "D2"} : AddDirectiveDefinition("S1", "object", d)
  \/ \E a \in {"A1", "A3"},
        ty \in {Named("S1_String"), NonNullType("S1_String"), Named("S1_Int")},
        defaultValue \in {None, "No longer supported"} :
       AddArgument("D2", "name", a, ty, defaultValue)
  \/ \E locations \in {<<"SCALAR">>, <<"ENUM_VALUE">>} : AddLocations("D2", locations)
  \/ RemoveDirectiveDefinition("D2")
  \/ \E sdlErrors \in {<<>>, <<"sdl">>} : Validate("S1", sdlErrors)
  \/ ToAST("S1")

SpecVal == InitWith(MaxValOps) /\ [][NextVal]_vars

\* SpecDir applies directives to the schema definition, a type and a
\* directive definition of the first schema, and removes applications, types
\* and definitions.
NextDir ==
  \/ \E t \in {"O1", "E1", "U1"} : AddType("S1", t)
  \/ \E d \in {"D1", "D2", "DC"} : AddDirectiveDefinition("S1", "object", d)
  \/ AddValue("E1", "name", "V1")
  \/ NewExtension("O1")
  \/ \E e \in {"SD1", "O1", "D1"}, n \in {"d", "deprecated"} :
       ApplyDirective(e, "name", n, None)
  \/ \E e \in {"SD1", "O1"}, args \in {None, "core_v1", "core_v9", "featA_v1"} :
       ApplyDirective(e, "name", "core", args)
  \/ \E e \in {"SD1", "O1"}, args \in {None, "featA_v1"} :
       ApplyDirective(e, "directive", "W1", args)
  \/ \E d \in {"D1", "DC"}, args \in {None, "core_v1"} :
       ApplyDirective("SD1", "definition", d, args)
  \/ \E w \in {"W1", "W2"} : RemoveDirective(w)
  \/ \E t \in {"O1", "E1", "U1"} : RemoveType(t)
  \/ \E d \in {"D1", "DC"} : RemoveDirectiveDefinition(d)
  \/ SetRepeatable("D1")

SpecDir == InitWith(MaxDirOps) /\ [][NextDir]_vars

\* SpecClone builds the first schema, validates it and clones it.
NextClone ==
  \/ \E t \in {"O1", "I1", "U1", "E1", "N1"} : AddType("S1", t)
  \/ Rename("O1", "Mutation")
  \/ AddDirectiveDefinition("S1", "object", "D1")
  \/ AddField("O1", "object", "F1", Named("S1_String"))
  \/ AddArgument("F1", "object", "A1", Named("S1_Int"), None)
  \/ AddInputField("N1", "object", "G1", Named("S1_Int"))
  \/ AddValue("E1", "object", "V1")
  \/ AddMember("U1", "type", "O1")
  \/ AddImplementedInterface("O1", "itf", "I1")
  \/ NewExtension("O1")
  \/ \E e \in {"SD1", "O1"}, n \in {"d", "deprecated"} : ApplyDirective(e, "name", n, None)
  \/ RemoveExtensionMember("R1")
  \/ \E sdlErrors \in {<<>>, <<"sdl">>} : Validate("S1", sdlErrors)
  \/ \E sdlErrors \in {<<>>, <<"sdl">>} : Clone("S1", "S2", sdlErrors)

SpecClone == InitWith(MaxCloneOps) /\ [][NextClone]_vars

\* SpecKind gives fields, input fields and arguments types of every kind, and
\* adds enum values.
NextKind ==
  \/ \E t \in {"O1", "N1", "E1"} : AddType("S1", t)
  \/ AddDirectiveDefinition("S1", "object", "D1")
  \/ \E form \in {"name", "object"}, ty \in {Named("S1_String"), Named("N1"), NoType} :
       AddField("O1", form, "F1", ty)
  \/ \E form \in {"name", "object"}, ty \in {Named("S1_Int"), Named("O1")} :
       AddInputField("N1", form, "G1", ty)
  \/ \E e \in {"F1", "D1"}, ty \in {Named("S1_Int"), ListType("O1")} :
       AddArgument(e, "name", "A1", ty, None)
  \/ \E e \in {"F1", "G1", "A1"}, ty \in {NonNullType("O1"), Named("N1"), Named("E1")} :
       SetType(e, ty)
  \/ \E form \in {"name", "object"}, v \in {"V1", "V2"} : AddValue("E1", form, v)
  \/ RemoveValue("V1")

SpecKind == InitWith(MaxKindOps) /\ [][NextKind]_vars

\* SpecExt gives extensions to an object type, a union, an enum and the schema
\* definition of the first schema and marks a field, an enum value, a union
\* member, a root type and an applied directive with them.
NextExt ==
  \/ \E t \in {"O1", "U1", "E1"} : AddType("S1", t)
  \/ AddField("O1", "name", "F1", Named("S1_String"))
  \/ AddValue("E1", "name", "V1")
  \/ AddMember("U1", "type", "O1")
  \/ SetRoot("SD1", "query", "type", "O1")
  \/ ApplyDirective("O1", "name", "deprecated", None)
  \/ \E t \in {"O1", "SD1"} : NewExtension(t)
  \/ \E t \in {"O1", "U1", "E1", "SD1"}, extension \in {"Z1", "Z2"} :
       AddExtension(t, extension)
  \/ \E m \in {"F1", "V1", "M1", "R1", "W1"}, extension \in {None, "Z1", "Z2"} :
       SetOfExtension(m, extension)
  \/ RemoveType("O1")
  \/ RemoveField("F1")

SpecExt == InitWith(MaxExtOps) /\ [][NextExt]_vars

\* SpecService redefines, in a schema whose policy has the built-in object
\* type _Service, that type and the directive @deprecated, and validates.
NextService ==
  \/ AddType("S1", "O3")
  \/ \E f \in {"F3", "F4"}, ty \in {Named("S1_String"), NonNullType("S1_String"), Named("S1_Int")} :
       AddField("O3", "object", f, ty)
  \/ \E ty \in {Named("S1_Int"), Named("S1_String")} : AddArgument("F3", "name", "A1", ty, None)
  \/ AddDirectiveDefinition("S1", "object", "D2")
  \/ \E ty \in {Named("S1_String"), Named("S1_Int")} :
       AddArgument("D2", "name", "A3", ty, "No longer supported")
  \/ \E locations \in {<<"SCALAR">>, <<"ENUM_VALUE">>} : AddLocations("D2", locations)
  \/ SetRepeatable("D2")
  \/ Validate("S1", <<>>)

SpecService == InitService(MaxServiceOps) /\ [][NextService]_vars

(***************************************************************************)
(* What the properties below read of a state and of a step                 *)
(***************************************************************************)
\* E holds a reference to the named type N: E is a field, argument or input
\* field whose type unwraps to N, a type with an implementation of N, a union
\* with a member of type N, or a schema definition with a root of type N.
Holds(h, E, N) ==
  \/ E \in TypedElements /\ h.type[E] # NoType /\ baseType(h.type[E]) = N
  \/ /\ E \in FieldBasedTypes
     /\ \E m \in Range(MapValues(h.interfaceImplementations[E])) : h.memberType[m] = N
  \/ E \in UnionTypes /\ \E m \in Range(MapValues(h.members[E])) : h.memberType[m] = N
  \/ E \in SchemaDefinitions /\ \E r \in Range(MapValues(h.roots[E])) : h.memberType[r] = N

\* The elements that can refer to a type.
Referencers == TypedElements \cup FieldBasedTypes \cup UnionTypes \cup SchemaDefinitions

\* The maps, lists, referencer sets, roots and parent links of the graph.
Graph(h) ==
  [parent |-> h.parent, name |-> h.name, types |-> h.types,
   builtInTypes |-> h.builtInTypes, directives |-> h.directives,
   builtInDirectives |-> h.builtInDirectives, roots |-> h.roots,
   referencers |-> h.referencers, type |-> h.type, fields |-> h.fields,
   interfaceImplementations |-> h.interfaceImplementations, members |-> h.members,
   values |-> h.values, args |-> h.args, locations |-> h.locations]

\* The flags and caches of the schemas.
Flags(h) ==
  [isConstructed |-> h.isConstructed, isValidated |-> h.isValidated,
   cachedDocument |-> h.cachedDocument, apiSchema |-> h.apiSchema]

\* The step changes nothing of the graph or of the flags.
ChangesNothing == Graph(st') = Graph(st) /\ Flags(st') = Flags(st)

\* The operations that mutate; validate, toAST and toAPISchema compute.
MutatingOps ==
  {"addType", "addDirectiveDefinition", "rename", "remove", "setRoot", "addField",
   "type", "addArgument", "addValue", "addMember", "clearTypes",
   "addImplementedInterface", "addLocations", "removeLocations"}

\* The schema an operation on x works in: x itself, or the schema x is
\* attached to, or None.
SchemaOfTarget(h, x) ==
  IF x \in Schemas THEN x
  ELSE IF x \in Elements THEN schemaInternal(h, x)
  ELSE None

RECURSIVE BuiltInOrAncestor(_, _)
\* x is flagged built-in, or one of its ancestors is.
BuiltInOrAncestor(h, x) ==
  IF x \notin Elements THEN FALSE
  ELSE IsBuiltIn(x) \/ BuiltInOrAncestor(h, h.parent[x])

\* The step is a call of a mutating operation.
Mutates == call'.op \in MutatingOps

\* The step is a call whose target is in a schema with the window closed.
WindowClosed ==
  /\ SchemaOfTarget(st, call'.self) # None
  /\ st.isConstructed[SchemaOfTarget(st, call'.self)]

\* C1: for every named type N and every element E, E is in N.referencers()
\* if and only if E holds at least one reference to N.
C1_ReferencersExact ==
  \A N \in NamedTypes, E \in Referencers : E \in st.referencers[N] <=> Holds(st, E, N)

\* C2: remove() on an attached named type T that returns, returns exactly the
\* elements that held a reference to T before the call, and after the call
\* none of them holds a reference to T.
C2_RemoveReturnsReferencers ==
  [][(/\ call'.op = "remove"
      /\ call'.form = "type"
      /\ isAttached(st, call'.self)
      /\ st'.exc = None)
     => /\ st'.ret = {E \in Referencers : Holds(st, E, call'.self)}
        /\ \A E \in Referencers : Holds(st, E, call'.self) => ~Holds(st', E, call'.self)]_vars

\* A non-built-in element: neither it nor an ancestor is flagged built-in,
\* and what addType or addDirectiveDefinition adds is not either.
NonBuiltInTarget ==
  /\ ~BuiltInOrAncestor(st, call'.self)
  /\ call'.op \in {"addType", "addDirectiveDefinition"} => ~IsBuiltIn(call'.arg[1])

\* C3: with the window closed, a mutating operation on a non-built-in
\* element that returns and has changed the graph leaves the schema not
\* validated and without cached document and API schema.
C3_MutationInvalidates ==
  [][(/\ Mutates
      /\ WindowClosed
      /\ NonBuiltInTarget
      /\ st'.exc = None
      /\ Graph(st') # Graph(st))
     => /\ ~st'.isValidated[SchemaOfTarget(st, call'.self)]
        /\ ~st'.cachedDocument[SchemaOfTarget(st, call'.self)]
        /\ ~st'.apiSchema[SchemaOfTarget(st, call'.self)]]_vars

\* The non-built-in types and directive definitions.
NonBuiltInTypes == {t \in NamedTypes : ~IsBuiltIn(t)}
NonBuiltInDirectives == {d \in DirectiveDefinitions : ~IsBuiltIn(d)}

\* The name of a type or of a directive definition.
NameOf(h, e) == IF e \in NamedTypes THEN h.name[e] ELSE ConstructedName[e]

\* The registry m of schema s is exact for the elements es, looked up by
\* lookup: each element of es attached to s is what its name resolves to, the
\* values of m are exactly those elements, each once, and no two of them
\* share a name.
RegistryExact(h, s, m, es, lookup(_, _, _)) ==
  LET attached == {e \in es : h.parent[e] = s}
  IN /\ \A e \in attached : lookup(h, s, NameOf(h, e)) = e
     /\ Range(MapValues(m)) = attached
     /\ Len(m) = Cardinality(attached)
     /\ \A e1, e2 \in attached : e1 # e2 => NameOf(h, e1) # NameOf(h, e2)

\* C4: non-built-in type names are unique and the registry is exact:
\* schema.type(T.name) is T for every non-built-in T whose parent is the
\* schema, and schema.types() holds exactly those types, each once; the same
\* for the directive definitions.
C4_RegistryExact ==
  \A s \in Schemas :
    /\ RegistryExact(st, s, st.types[s], NonBuiltInTypes, SchemaType)
    /\ RegistryExact(st, s, st.directives[s], NonBuiltInDirectives, SchemaDirective)

\* C5: after S.addType(T) returns, S.type(T.name) is T and T.schema() is S.
C5_AddTypeRegisters ==
  [][(call'.op = "addType" /\ st'.exc = None)
     => /\ SchemaType(st', call'.self, st'.name[call'.arg[1]]) = call'.arg[1]
        /\ schemaInternal(st', call'.arg[1]) = call'.self]_vars

\* C6: a mutating operation that fails leaves every map, list, referencer
\* set, root, parent link and flag as before the call.
C6_FailureChangesNothing ==
  [][(Mutates /\ st'.exc # None) => ChangesNothing]_vars

\* C7: with the window closed, a mutating operation whose target is flagged
\* built-in or has a built-in ancestor fails with a built-in error and
\* changes nothing.
C7_BuiltInRejected ==
  [][(/\ Mutates
      /\ call'.self \in Elements
      /\ WindowClosed
      /\ BuiltInOrAncestor(st, call'.self))
     => st'.exc = "builtin" /\ ChangesNothing]_vars

\* C8: a mutating operation other than remove on a detached element fails
\* with a detached-element error and changes nothing.
C8_DetachedRejected ==
  [][(/\ Mutates
      /\ call'.op # "remove"
      /\ call'.self \in Elements
      /\ ~isAttached(st, call'.self))
     => st'.exc = "detached" /\ ChangesNothing]_vars

\* The step is S.addType(e) or S.addDirectiveDefinition(e).
Adds == call'.op \in {"addType", "addDirectiveDefinition"}

\* What the name of the added element resolves to in the schema before the
\* call.
ExistingOfAdded ==
  IF call'.op = "addType" THEN SchemaType(st, call'.self, st.name[call'.arg[1]])
  ELSE SchemaDirective(st, call'.self, ConstructedName[call'.arg[1]])

\* (a) a non-built-in element of the name is registered in the schema
SameNameRegistered == ExistingOfAdded # None /\ ~IsBuiltIn(ExistingOfAdded)

\* (b) the element is attached to another schema
AttachedElsewhere ==
  isAttached(st, call'.arg[1]) /\ st.parent[call'.arg[1]] # call'.self

\* (c) the element is flagged built-in and the window is closed
BuiltInWindowClosed == IsBuiltIn(call'.arg[1]) /\ st.isConstructed[call'.self]

\* The call fails, and the type and directive maps of both schemas, the
\* roots and the parent of the element are unchanged.
FailsUnchanged ==
  /\ st'.exc # None
  /\ st'.types = st.types /\ st'.builtInTypes = st.builtInTypes
  /\ st'.directives = st.directives /\ st'.builtInDirectives = st.builtInDirectives
  /\ st'.roots = st.roots
  /\ st'.parent[call'.arg[1]] = st.parent[call'.arg[1]]

\* C9, as stated: addType and addDirectiveDefinition fail, with the maps, the
\* roots and the parent of the element unchanged, in each of the cases (a),
\* (b) and (c).
C9_AddFails_AsStated ==
  [][(Adds /\ (SameNameRegistered \/ AttachedElsewhere \/ BuiltInWindowClosed))
     => FailsUnchanged]_vars

\* C9: addType and addDirectiveDefinition fail, with the maps, the roots and
\* the parent of the element unchanged, in the cases (a), (b) and (c) for an
\* element that is not already attached to this schema.
C9_AddFails ==
  [][(Adds /\ (\/ SameNameRegistered
               \/ AttachedElsewhere
               \/ BuiltInWindowClosed /\ st.parent[call'.arg[1]] # call'.self))
     => FailsUnchanged]_vars

\* A built-in element that is attached to no schema has been refused.
C9_BuiltInRefused ==
  /\ call.op \in {"addType", "addDirectiveDefinition"}
  /\ IsBuiltIn(call.arg[1])
  /\ st.parent[call.arg[1]] = None
  /\ st.exc = "builtin"

\* C10: addType or addDirectiveDefinition of an element attached to this
\* schema returns the element without an error and changes nothing.
C10_ReAddIsNoOp ==
  [][(Adds /\ st.parent[call'.arg[1]] = call'.self)
     => /\ st'.exc = None
        /\ st'.ret = {call'.arg[1]}
        /\ ChangesNothing]_vars

\* The step is a call of validate() that follows a call of validate() on the
\* same schema, for which the rule-checker has the same answer.
SecondValidate ==
  /\ call.op = "validate"
  /\ call'.op = "validate"
  /\ call'.self = call.self
  /\ call'.arg = call.arg

\* C11, as stated: the second of two consecutive validate() calls invokes
\* neither the rule-checker nor the built-ins policy and ends as the first
\* did, with the same errors.
C11_SecondValidateMemoized_AsStated ==
  [][SecondValidate
     => /\ st'.invoked = {}
        /\ st'.exc = st.exc
        /\ st'.causes = st.causes]_vars

\* C11: the second of two consecutive validate() calls, the first of which
\* returned, invokes neither the rule-checker nor the built-ins policy,
\* returns as well and changes nothing.
C11_SecondValidateMemoized ==
  [][(SecondValidate /\ st.exc = None)
     => /\ st'.invoked = {}
        /\ st'.exc = None
        /\ ChangesNothing]_vars

\* validate() has returned twice in a row on a schema that redefines a
\* built-in.
C11_ValidatedTwice ==
  /\ call.op = "validate"
  /\ st.exc = None
  /\ st.invoked = {}
  /\ st.isValidated[call.self]
  /\ st.directives[call.self] # <<>>

\* The errors validate() collects in a step: those of the rule-checker, or
\* without any those of the built-ins policy, up to a TypeError.
Collected ==
  IF call'.arg # <<>> THEN call'.arg
  ELSE SelectSeq(onValidation(st, call'.self), LAMBDA e : e # "typeError")

\* C12: validate() on a schema that is not validated invokes the
\* rule-checker, and the built-ins policy only if the rule-checker reported
\* no error; it fails with the aggregate of the collected errors if and only
\* if there is one, and the schema is validated afterwards if and only if
\* there is none.
C12_ValidateOutcome ==
  [][(call'.op = "validate" /\ ~st.isValidated[call'.self])
     => /\ "validateSDL" \in st'.invoked
        /\ "onValidation" \in st'.invoked => call'.arg = <<>>
        /\ st'.exc # None <=> Collected # <<>>
        /\ st'.exc # None => st'.exc = "validation" /\ st'.causes = Collected
        /\ st'.isValidated[call'.self] <=> Collected = <<>>]_vars

\* The names a lookup is given.
LookupNames == {"String", "Query", "A", "deprecated", "d", "nothing"}

\* schema.type(T.name), or schema.directive(D.name)
LookupOf(h, s, e) ==
  IF e \in NamedTypes THEN SchemaType(h, s, h.name[e])
  ELSE SchemaDirective(h, s, ConstructedName[e])

\* The built-in of schema s that has the name of e, or None.
Shadowed(h, s, e) ==
  IF e \in NamedTypes THEN MapGet(h.builtInTypes[s], h.name[e])
  ELSE MapGet(h.builtInDirectives[s], ConstructedName[e])

\* The step leaves the built-in b attached to s, in the built-in map, and as
\* it was.
Intact(s, b) ==
  /\ st'.parent[b] = s
  /\ st'.builtInTypes = st.builtInTypes
  /\ st'.builtInDirectives = st.builtInDirectives
  /\ b \in NamedTypes => st'.name[b] = st.name[b] /\ st'.referencers[b] = st.referencers[b]
  /\ b \in DirectiveDefinitions =>
       /\ st'.args[b] = st.args[b]
       /\ st'.locations[b] = st.locations[b]
       /\ st'.repeatable[b] = st.repeatable[b]

\* The user-defined element e the built-in of its name is looked up for.
ShadowingAdded ==
  /\ Adds
  /\ st'.exc = None
  /\ ~IsBuiltIn(call'.arg[1])
  /\ Shadowed(st, call'.self, call'.arg[1]) # None

ShadowingRemoved ==
  /\ call'.op = "remove"
  /\ call'.form \in {"type", "directive"}
  /\ ~IsBuiltIn(call'.self)
  /\ st.parent[call'.self] \in Schemas
  /\ st'.exc = None
  /\ Shadowed(st, st.parent[call'.self], call'.self) # None

DefaultRootOfAdded == checkDefaultSchemaRoot(KindOf(call'.arg[1]), st.name[call'.arg[1]])

\* The type of the root of a kind, or None.
RootTypeOf(h, sd, kind) ==
  IF root(h, sd, kind) = None THEN None ELSE h.memberType[root(h, sd, kind)]

\* The assignment of every root kind of the schema definition.
RootAssignment(h, sd) ==
  [k \in {"query", "mutation", "subscription"} |-> RootTypeOf(h, sd, k)]

\* C14: when addType has added a type, an object type named Query, Mutation
\* or Subscription is the root of that kind if the kind had no root, and no
\* other root assignment has changed; with a root of that kind, or for a type
\* of another kind or name, no root assignment has changed.
C14_DefaultRoot ==
  [][(/\ call'.op = "addType"
      /\ st'.exc = None
      /\ st.parent[call'.arg[1]] = None)
     => LET sd == SchemaDefinitionOf[call'.self]
        IN IF /\ DefaultRootOfAdded # None
              /\ root(st, sd, DefaultRootOfAdded) = None
           THEN RootAssignment(st', sd) =
                  [RootAssignment(st, sd) EXCEPT ![DefaultRootOfAdded] = call'.arg[1]]
           ELSE /\ RootAssignment(st', sd) = RootAssignment(st, sd)
                /\ st'.roots = st.roots]_vars

\* An object type named Query has been added to a schema whose query root
\* was set to another type: the root is still that other type.
C14_RootKept ==
  /\ call.op = "addType"
  /\ st.exc = None
  /\ st.name[call.arg[1]] = "Query"
  /\ call.arg[1] \in ObjectTypes
  /\ st.parent[call.arg[1]] = call.self
  /\ RootTypeOf(st, SchemaDefinitionOf[call.self], "query") \notin {None, call.arg[1]}

\* The elements a named type owns: its fields (the built-in __typename
\* included) with their arguments, its input fields, enum values, union
\* members and interface implementations.
OwnedBy(h, t) ==
  LET fs == IF t \in DOMAIN h.fields THEN Range(MapValues(h.fields[t])) ELSE {}
  IN UNION {fs,
            UNION {Range(MapValues(h.args[f])) : f \in fs \cap FieldDefinitions},
            IF t \in UnionTypes THEN Range(MapValues(h.members[t])) \cup ({h.typenameField[t]} \ {None}) ELSE {},
            IF t \in EnumTypes THEN Range(h.values[t]) ELSE {},
            IF t \in FieldBasedTypes THEN Range(MapValues(h.interfaceImplementations[t])) ELSE {}}

\* The elements a named type lists: its fields, values, members and
\* interface implementations.
ListedUnder(h, t) ==
  UNION {IF t \in DOMAIN h.fields THEN Range(MapValues(h.fields[t])) ELSE {},
         IF t \in UnionTypes THEN Range(MapValues(h.members[t])) ELSE {},
         IF t \in EnumTypes THEN Range(h.values[t]) ELSE {},
         IF t \in FieldBasedTypes THEN Range(MapValues(h.interfaceImplementations[t])) ELSE {}}

\* C15: remove() on an attached non-built-in named type T that returns leaves
\* T without parent and not returned by the lookup of its name, every element
\* T owned detached and no longer listed under T, every directive application
\* that was on T detached and off T's list, and T without extensions.
C15_TypeRemoveDetachesAll ==
  [][(/\ call'.op = "remove"
      /\ call'.form = "type"
      /\ isAttached(st, call'.self)
      /\ ~IsBuiltIn(call'.self)
      /\ st'.exc = None)
     => /\ st'.parent[call'.self] = None
        /\ SchemaType(st', st.parent[call'.self], st.name[call'.self]) # call'.self
        /\ \A c \in OwnedBy(st, call'.self) : st'.parent[c] = None
        /\ ListedUnder(st', call'.self) = {}
        /\ \A w \in Range(st.appliedDirectives[call'.self]) : st'.parent[w] = None
        /\ st'.appliedDirectives[call'.self] = <<>>
        /\ st'.extensions[call'.self] = {}]_vars

\* The applications of h that elements of the schema carry and whose name
\* resolves to no definition
Dangling(h) ==
  {w \in Directives :
     /\ \E e \in SchemaElements :
          w \in Range(h.appliedDirectives[e]) /\ schemaInternal(h, e) # None
     /\ definitionOf(h, w) = None}

\* C16: remove() on an attached directive definition returns, and returns
\* the applications that referenced the definition; afterwards the
\* definition and its arguments have no parent, its set of referencers is
\* empty, and none of the former applications is carried by an element of
\* the schema under a name that resolves to no definition.
C16_DefinitionRemoveNeverFails ==
  [][(/\ call'.op = "remove"
      /\ call'.form = "directive"
      /\ isAttached(st, call'.self))
     => /\ st'.exc = None
        /\ st'.ret = st.applications[call'.self]
        /\ st'.parent[call'.self] = None
        /\ \A a \in Range(MapValues(st.args[call'.self])) : st'.parent[a] = None
        /\ st'.applications[call'.self] = {}
        /\ Dangling(st') \cap st.applications[call'.self] = {}]_vars

\* The schema has neither the validated flag nor a cached document or API
\* schema.
Invalidated(h, s) == ~h.isValidated[s] /\ ~h.cachedDocument[s] /\ ~h.apiSchema[s]

\* What C17 says of an applyDirective on element e that returned w
AppliedTo(e, w) ==
  /\ st'.appliedDirectives[e] = Append(st.appliedDirectives[e], w)
  /\ st'.parent[w] = e
  /\ definitionOf(st', w) # None
  /\ w \in st'.applications[definitionOf(st', w)]
  /\ Invalidated(st', schemaInternal(st, e))

\* C17: an applyDirective on an attached element that returns has appended
\* the application to the element's applied directives, made the element the
\* application's parent, added the application to the applications of the
\* definition its name resolves to, and left the schema without validated
\* flag and caches.
C17_ApplyDirectiveLinks ==
  [][(/\ call'.op = "applyDirective"
      /\ isAttached(st, call'.self)
      /\ st'.exc = None)
     => \E w \in Directives : st'.ret = {w} /\ AppliedTo(call'.self, w)]_vars

\* The same name was applied to the same element by the call before, which
\* returned.
SecondApplication ==
  /\ call'.op = "applyDirective" /\ call.op = "applyDirective"
  /\ call'.form = "name" /\ call.form = "name"
  /\ call'.self = call.self
  /\ call'.arg[1] = call.arg[1]
  /\ st.exc = None
  /\ SchemaDirective(st, schemaInternal(st, call.self), call.arg[1]) # None

\* C18: of two consecutive applications of one name to one element, the
\* second fails and the element keeps the application it had when the
\* definition is not repeatable, and the second returns and
\* appliedDirectivesOf(name) ends with the two applications, in order, when
\* it is repeatable.
C18_SecondApplication ==
  [][SecondApplication =>
       IF st.repeatable[SchemaDirective(st, schemaInternal(st, call.self), call.arg[1])]
       THEN /\ st'.exc = None
            /\ appliedDirectivesOf(st', call.self, call.arg[1])
                 = Append(appliedDirectivesOf(st, call.self, call.arg[1]),
                          CHOOSE w \in Directives : st'.ret = {w})
            /\ st.ret \subseteq Range(appliedDirectivesOf(st, call.self, call.arg[1]))
       ELSE /\ st'.exc # None
            /\ appliedDirectivesOf(st', call.self, call.arg[1])
                 = appliedDirectivesOf(st, call.self, call.arg[1])]_vars

\* The applications on the schema definition of s that declare the core spec
\* itself
CoreSpecApplications(h, s) ==
  {w \in Range(h.appliedDirectives[SchemaDefinitionOf[s]]) :
     isCoreSpecDirectiveApplication(h, w)}

\* C19: after every call, a schema has coreFeatures if and only if an
\* application declaring the core spec is applied on its schema definition,
\* the application the registry records as the core spec is one of them, and
\* a call that failed has left no new such application on the schema
\* definition and has not changed the registry.
C19_CoreFeaturesIffApplied ==
  [][\A s \in Schemas :
       /\ st'.coreFeatures[s] # <<>> <=> CoreSpecApplications(st', s) # {}
       /\ st'.coreFeatures[s] # <<>>
            => st'.coreFeatures[s][1].coreItself[3] \in CoreSpecApplications(st', s)
       /\ st'.exc # None
            => /\ CoreSpecApplications(st', s) \subseteq CoreSpecApplications(st, s)
               /\ st'.coreFeatures[s] = st.coreFeatures[s]]_vars

\* The name of the directive an applyDirective by name or by definition
\* applies
AppliedName == IF call'.form = "name" THEN call'.arg[1] ELSE ConstructedName[call'.arg[1]]

\* The marking directive, which the schema defines, is applied by name or by
\* definition to the schema definition of a core schema, with the url of an
\* identity the registry holds.
AppliesRegisteredIdentity ==
  /\ call'.op = "applyDirective"
  /\ call'.form \in {"name", "definition"}
  /\ call'.self \in SchemaDefinitions
  /\ st.coreFeatures[st.parent[call'.self]] # <<>>
  /\ AppliedName = st.coreFeatures[st.parent[call'.self]][1].coreItself[2]
  /\ SchemaDirective(st, st.parent[call'.self], AppliedName) # None
  /\ ~ParseFails(call'.arg[2])
  /\ MapHas(st.coreFeatures[st.parent[call'.self]][1].byIdentity, UrlIdentity(call'.arg[2]))

RemovesCoreApplication ==
  /\ call'.op = "remove"
  /\ call'.form = "application"
  /\ st.parent[call'.self] \in SchemaDefinitions
  /\ st.coreFeatures[st.parent[st.parent[call'.self]]] # <<>>
  /\ st.coreFeatures[st.parent[st.parent[call'.self]]][1].coreItself[3] = call'.self

\* C21: removing the application that marks the schema as a core schema
\* returns and leaves the schema without coreFeatures, the schema definition
\* without any application of the marking directive's name, and that
\* application and every other application of the name that was on the schema
\* definition without parent.
C21_RemoveCoreApplication ==
  [][RemovesCoreApplication
     => LET sd == st.parent[call'.self]
            name == st.coreFeatures[st.parent[sd]][1].coreItself[2]
        IN /\ st'.exc = None
           /\ st'.coreFeatures[st.parent[sd]] = <<>>
           /\ appliedDirectivesOf(st', sd, name) = <<>>
           /\ \A w \in Range(appliedDirectivesOf(st, sd, name)) : st'.parent[w] = None
           /\ st'.parent[call'.self] = None]_vars

\* The user-defined directives of schema s that redefine built-in b
RedefinitionOf(h, s, b) == SchemaDirective(h, s, ConstructedName[b])

\* The built-in directives of schema s that have a user redefinition
RedefinedBuiltIns(h, s) ==
  {b \in Range(MapValues(h.builtInDirectives[s])) : ~IsBuiltIn(RedefinitionOf(h, s, b))}

\* C22: validate() of a schema that is not validated and for which the
\* rule-checker reports nothing: for a built-in directive that is redefined,
\* no location error is collected when the locations of the redefinition are
\* among those of the built-in, and otherwise a location error is collected
\* and validate fails with the collected errors.
C22_RedefinedLocations ==
  [][(call'.op = "validate" /\ call'.arg = <<>> /\ ~st.isValidated[call'.self])
     => \A b \in RedefinedBuiltIns(st, call'.self) :
          IF Range(st.locations[RedefinitionOf(st, call'.self, b)])
               \subseteq Range(st.locations[b])
          THEN "locations" \notin Range(onValidation(st, call'.self))
               /\ "locations" \notin Range(st'.causes)
          ELSE /\ "locations" \in Range(onValidation(st, call'.self))
               /\ st'.exc = "validation"
               /\ "locations" \in Range(st'.causes)]_vars

\* C24: after every public operation, whether it returned or failed, no
\* schema lets built-ins be modified: the window that the constructor closed
\* is closed again.
C24_WindowClosedBetweenOperations ==
  \A s \in Schemas : ~canModifyBuiltIn(st, s)

\* The call hands addType or addDirectiveDefinition an element that has a
\* parent other than the schema it is called on.
AttachesAttached ==
  /\ call'.op \in {"addType", "addDirectiveDefinition"}
  /\ call'.form = "object"
  /\ st.parent[call'.arg[1]] \notin {None, call'.self}

ListedBy(h, w) == {e \in SchemaElements : w \in Range(h.appliedDirectives[e])}

\* C26: applyDirective of an attached element given a Directive: when the
\* directive has no parent the call returns, the element is the directive's
\* parent and lists it once; when it has another parent the call fails; and
\* after every call no application is listed by two elements.
C26_ApplyExistingDirective ==
  [][/\ (/\ call'.op = "applyDirective"
         /\ call'.form = "directive"
         /\ schemaInternal(st, call'.self) # None)
        => IF st.parent[call'.arg[1]] = None
           THEN /\ st'.exc = None
                /\ st'.parent[call'.arg[1]] = call'.self
                /\ Len(SelectSeq(st'.appliedDirectives[call'.self],
                                 LAMBDA w : w = call'.arg[1])) = 1
           ELSE st.parent[call'.arg[1]] # call'.self => st'.exc # None
     /\ \A w \in Directives : Cardinality(ListedBy(st', w)) <= 1]_vars

\* The applications attached to elements of schema s whose name resolves to
\* definition d
ApplicationsOf(h, s, d) ==
  {w \in Directives : schemaInternal(h, w) = s /\ definitionOf(h, w) = d}

\* C27: for every directive definition attached to a schema, applications()
\* is the set of the applications attached to elements of that schema whose
\* name resolves to the definition.
C27_ApplicationsExact ==
  \A d \in DirectiveDefinitions :
    schemaInternal(st, d) # None
      => st.applications[d] = ApplicationsOf(st, schemaInternal(st, d), d)

\* The elements that p, a schema or an element, lists as its children: the
\* types, directive definitions and schema definition of a schema; the
\* fields, input fields, interface implementations, members, __typename field
\* and values of a type; the arguments of a field or directive definition; the
\* root types of a schema definition; the applied directives of any element.
ChildrenOf(h, p) ==
  UNION {IF p \in Schemas
         THEN UNION {Range(MapValues(h.types[p])), Range(MapValues(h.builtInTypes[p])),
                     Range(MapValues(h.directives[p])),
                     Range(MapValues(h.builtInDirectives[p])), {SchemaDefinitionOf[p]}}
         ELSE {},
         IF p \in DOMAIN h.fields THEN Range(MapValues(h.fields[p])) ELSE {},
         IF p \in FieldBasedTypes THEN Range(MapValues(h.interfaceImplementations[p])) ELSE {},
         IF p \in UnionTypes
         THEN Range(MapValues(h.members[p])) \cup ({h.typenameField[p]} \ {None}) ELSE {},
         IF p \in EnumTypes THEN Range(h.values[p]) ELSE {},
         IF p \in DOMAIN h.args THEN Range(MapValues(h.args[p])) ELSE {},
         IF p \in SchemaDefinitions THEN Range(MapValues(h.roots[p])) ELSE {},
         IF p \in SchemaElements THEN Range(h.appliedDirectives[p]) ELSE {}}

\* C28: between public operations, an element has parent p if and only if p
\* lists the element among its children.
C28_ParentChildAgree ==
  \A e \in Elements, p \in Elements \cup Schemas :
    st.parent[e] = p <=> e \in ChildrenOf(st, p)

\* The applications of the marking directive on the schema definition of core
\* schema s whose feature url has identity id
MarkingApplications(h, s, id) ==
  {w \in Range(appliedDirectivesOf(h, SchemaDefinitionOf[s],
                                   h.coreFeatures[s][1].coreItself[2])) :
     ~ParseFails(h.directiveArgs[w]) /\ UrlIdentity(h.directiveArgs[w]) = id}

\* The registry of core schema s mirrors the marking applications.
RegistryMirrors(h, s) ==
  /\ \A url \in FeatureUrls :
       /\ MapHas(h.coreFeatures[s][1].byIdentity, UrlIdentity(url))
            <=> Cardinality(MarkingApplications(h, s, UrlIdentity(url))) = 1
       /\ MapHas(h.coreFeatures[s][1].byIdentity, UrlIdentity(url))
            => MapGet(h.coreFeatures[s][1].byIdentity, UrlIdentity(url))[3]
                 \in MarkingApplications(h, s, UrlIdentity(url))
  /\ Range(MapValues(h.coreFeatures[s][1].byAlias))
       = Range(MapValues(h.coreFeatures[s][1].byIdentity))
  /\ \A f \in Range(MapValues(h.coreFeatures[s][1].byIdentity)) :
       MapGet(h.coreFeatures[s][1].byAlias, f[2]) = f

\* C29: while a schema has coreFeatures, an identity is registered if and
\* only if exactly one application of the marking directive on the schema
\* definition carries it, the feature registered for it has that application
\* as directive, and the index by alias holds the same features as the index
\* by identity, each under its alias.
C29_RegistryMirrorsApplications ==
  \A s \in Schemas : st.coreFeatures[s] # <<>> => RegistryMirrors(st, s)

\* The call removes an application of the marking directive that is on the
\* schema definition of a core schema and whose feature url has an identity
\* other than that of the core spec.
RemovesFeatureApplication ==
  /\ call'.op = "remove"
  /\ call'.form = "application"
  /\ st.parent[call'.self] \in SchemaDefinitions
  /\ st.coreFeatures[st.parent[st.parent[call'.self]]] # <<>>
  /\ st.directiveName[call'.self]
       = st.coreFeatures[st.parent[st.parent[call'.self]]][1].coreItself[2]
  /\ ~ParseFails(st.directiveArgs[call'.self])
  /\ UrlIdentity(st.directiveArgs[call'.self])
       # UrlIdentity(st.coreFeatures[st.parent[st.parent[call'.self]]][1].coreItself[1])

\* C30: removing such an application returns; the registry no longer has its
\* identity, under either index, and has every other feature as before; the
\* schema still has coreFeatures; the schema definition lists the other
\* applications as before and no longer this one, which has no parent.
C30_RemoveFeatureApplication ==
  [][RemovesFeatureApplication
     => LET sd == st.parent[call'.self]
            s == st.parent[st.parent[call'.self]]
            id == UrlIdentity(st.directiveArgs[call'.self])
        IN /\ st'.exc = None
           /\ st'.coreFeatures[s] # <<>>
           /\ st'.coreFeatures[s][1].byIdentity
                = MapDelete(st.coreFeatures[s][1].byIdentity, id)
           /\ Range(MapValues(st'.coreFeatures[s][1].byAlias))
                = Range(MapValues(st'.coreFeatures[s][1].byIdentity))
           /\ st'.coreFeatures[s][1].coreItself = st.coreFeatures[s][1].coreItself
           /\ st'.appliedDirectives[sd]
                = SelectSeq(st.appliedDirectives[sd], LAMBDA w : w # call'.self)
           /\ st'.parent[call'.self] = None]_vars

(***************************************************************************)
(* C23: the clone of a validated schema                                    *)
(***************************************************************************)
\* The applied directives of e, by name and arguments, in order.
AppliedStructure(h, e) ==
  [i \in 1..Len(h.appliedDirectives[e]) |->
     <<h.directiveName[h.appliedDirectives[e][i]],
       h.directiveArgs[h.appliedDirectives[e][i]]>>]

\* A type reference, by the name of its named type.
TypeRefStructure(h, ty) == IF ty = NoType THEN NoType ELSE <<ty[1], h.name[ty[2]]>>

\* The arguments of a field or of a directive definition, in order.
ArgumentsStructure(h, e) ==
  [i \in 1..Len(h.args[e]) |->
     <<ConstructedName[h.args[e][i][2]], TypeRefStructure(h, h.type[h.args[e][i][2]]),
       h.defaultValue[h.args[e][i][2]], AppliedStructure(h, h.args[e][i][2])>>]

\* A field or an input field.
FieldStructure(h, f) ==
  <<ConstructedName[f], TypeRefStructure(h, h.type[f]),
    IF f \in FieldDefinitions THEN ArgumentsStructure(h, f) ELSE <<>>,
    IF f \in InputFieldDefinitions THEN h.defaultValue[f] ELSE None,
    AppliedStructure(h, f)>>

\* The fields that fields() returns, in order.
FieldsStructure(h, t) ==
  IF t \notin DOMAIN h.fields THEN <<>>
  ELSE LET fs == SelectSeq(MapValues(h.fields[t]), LAMBDA f : ~IsBuiltIn(f))
       IN [i \in 1..Len(fs) |-> FieldStructure(h, fs[i])]

\* A named type: its name, kind, applied directives, number of extensions,
\* fields, implemented interfaces, members and values.
TypeStructure(h, t) ==
  [name |-> h.name[t], kind |-> KindOf(t), applied |-> AppliedStructure(h, t),
   extensions |-> Cardinality(h.extensions[t]),
   fields |-> FieldsStructure(h, t),
   interfaces |->
     IF t \in FieldBasedTypes
     THEN {h.name[h.memberType[p]] : p \in Range(MapValues(h.interfaceImplementations[t]))}
     ELSE {},
   members |->
     IF t \in UnionTypes
     THEN {h.name[h.memberType[m]] : m \in Range(MapValues(h.members[t]))}
     ELSE {},
   values |->
     IF t \in EnumTypes
     THEN [i \in 1..Len(h.values[t]) |->
             <<ConstructedName[h.values[t][i]], AppliedStructure(h, h.values[t][i])>>]
     ELSE <<>>]

\* A directive definition.
DirectiveStructure(h, d) ==
  [name |-> ConstructedName[d], args |-> ArgumentsStructure(h, d),
   locations |-> h.locations[d], repeatable |-> h.repeatable[d]]

\* The root assignments of a schema: the kinds with a root, and the name of
\* the type of each.
RootsStructure(h, s) ==
  {<<h.rootKind[r], h.name[h.memberType[r]]>> :
     r \in Range(MapValues(h.roots[SchemaDefinitionOf[s]]))}

\* What types(), directives() and the schema definition of s hold.
SchemaStructure(h, s) ==
  [types |-> {TypeStructure(h, t) : t \in Range(MapValues(h.types[s]))},
   directives |-> {DirectiveStructure(h, d) : d \in Range(MapValues(h.directives[s]))},
   roots |-> RootsStructure(h, s),
   applied |-> AppliedStructure(h, SchemaDefinitionOf[s])]

\* The elements of s: its schema definition, types and directive definitions,
\* and what they list, down to the applied directives of arguments.
ElementsOf(h, s) ==
  LET c1 == ChildrenOf(h, s)
      c2 == c1 \cup UNION {ChildrenOf(h, e) : e \in c1}
      c3 == c2 \cup UNION {ChildrenOf(h, e) : e \in c2}
  IN c3 \cup UNION {ChildrenOf(h, e) : e \in c3}

\* clone() has returned for a schema that was validated.
ClonedValidated == call.op = "clone" /\ st.exc = None /\ st.isValidated[call.self]

\* C23: the clone C of a successfully validated schema S has the types,
\* fields, arguments, values, members, interface implementations, directive
\* definitions, applied directives and root assignments of S (a root of a kind
\* iff S has one), every element of C belongs to C and none is shared with S.
C23_CloneIdentical ==
  ClonedValidated =>
    /\ SchemaStructure(st, "S2") = SchemaStructure(st, call.self)
    /\ \A e \in ElementsOf(st, "S2") : schemaInternal(st, e) = "S2"
    /\ ElementsOf(st, "S2") \cap ElementsOf(st, call.self) = {}

(***************************************************************************)
(* C31: the kinds of type references                                       *)
(***************************************************************************)
\* The call is addField, addArgument or the assignment of a type: the element
\* that is given a type, and the type.
TypedByCall == IF call.op = "type" THEN call.self ELSE call.arg[1]
GivenType ==
  IF call.op = "type" THEN <<call.arg[1], call.arg[2]>> ELSE <<call.arg[2], call.arg[3]>>

\* The type the call gives does not have the kind that the position of the
\* element requires.
GivesWrongKind ==
  /\ call.op \in {"addField", "addArgument", "type"}
  /\ GivenType # NoType
  /\ IF TypedByCall \in FieldDefinitions THEN ~isOutputType(GivenType)
     ELSE ~isInputType(GivenType)

\* C31: every field's type is an output type and every argument's and input
\* field's type is an input type, and a call that gives a field a non-output
\* type or an argument or input field a non-input type fails (with a kind
\* error, unless an earlier check of the call refuses it).
C31_TypeKinds ==
  /\ \A f \in FieldDefinitions : st.type[f] # NoType => isOutputType(st.type[f])
  /\ \A a \in ArgumentDefinitions \cup InputFieldDefinitions :
       st.type[a] # NoType => isInputType(st.type[a])
  /\ GivesWrongKind => st.exc # None

(***************************************************************************)
(* C32: FieldBasedType.addField                                            *)
(***************************************************************************)
\* The step is t.addField(f, type) on an object or interface type t.
AddsField == call'.op = "addField" /\ call'.self \in FieldBasedTypes

\* The type supplied to addField, NoType if none.
SuppliedType == <<call'.arg[2], call'.arg[3]>>

\* C32: addField on an attached object or interface type fails if a field of
\* the name exists or the supplied type is no output type; when it succeeds
\* the field is stored after the existing fields, its parent is the type,
\* and a supplied type is its type and lists it as a referencer; when it fails
\* the field map of the type and all referencer sets are unchanged.
C32_AddField ==
  [][AddsField =>
       LET t == call'.self
           f == call'.arg[1]
       IN /\ ( /\ isAttached(st, t)
               /\ \/ MapHas(st.fields[t], ConstructedName[f])
                  \/ SuppliedType # NoType /\ ~isOutputType(SuppliedType) )
             => st'.exc # None
          /\ st'.exc = None =>
               /\ st'.fields[t] = Append(st.fields[t], <<ConstructedName[f], f>>)
               /\ st'.parent[f] = t
               /\ SuppliedType # NoType =>
                    /\ st'.type[f] = SuppliedType
                    /\ f \in st'.referencers[baseType(SuppliedType)]
          /\ st'.exc # None =>
               /\ st'.fields[t] = st.fields[t]
               /\ st'.referencers = st.referencers]_vars

(***************************************************************************)
(* C33: EnumType.addValue                                                  *)
(***************************************************************************)
\* The step is e.addValue(v) on an enum type that is attached.
AddsValue == call'.op = "addValue" /\ isAttached(st, call'.self)

\* C33: addValue on an attached enum type fails when the enum has a value of
\* the name, and otherwise succeeds, appends the value and attaches it to the
\* enum.
C33_AddValue ==
  [][AddsValue =>
       IF EnumValueOf(st, call'.self, ConstructedName[call'.arg[1]]) # None
       THEN st'.exc # None
       ELSE /\ st'.exc = None
            /\ st'.values[call'.self] = Append(st.values[call'.self], call'.arg[1])
            /\ st'.parent[call'.arg[1]] = call'.self]_vars

(***************************************************************************)
(* C34: the implicit __typename field                                      *)
(***************************************************************************)
\* typenameField() of an object, interface or union type, None if undefined.
TypenameFieldIn(h, t) ==
  IF t \in UnionTypes THEN h.typenameField[t] ELSE MapGet(h.fields[t], typenameFieldName)

\* The type has its built-in __typename field, of type String!.
HasTypename(h, t) ==
  /\ TypenameFieldIn(h, t) # None
  /\ IsBuiltIn(TypenameFieldIn(h, t))
  /\ h.type[TypenameFieldIn(h, t)] = NonNullType(stringType(h, schemaInternal(h, t)))

\* The step is a mutating operation on the __typename field of an attached
\* type, outside the window.
ModifiesTypename ==
  /\ Mutates
  /\ WindowClosed
  /\ \E t \in FieldBasedTypes \cup UnionTypes :
       isAttached(st, t) /\ TypenameFieldIn(st, t) = call'.self

\* C34: every object, interface and union type attached to a schema has its
\* built-in __typename field of type String!, typenameField() being undefined
\* for detached types only, and outside the window an operation on that field
\* fails and leaves the object graph as it is.
C34_TypenameField ==
  [][/\ \A t \in FieldBasedTypes \cup UnionTypes :
          isAttached(st', t) => HasTypename(st', t)
     /\ ModifiesTypename => st'.exc # None /\ Graph(st') = Graph(st)]_vars

(***************************************************************************)
(* C35: remove() on a detached element                                     *)
(***************************************************************************)
\* The step is remove() on an element that has no parent.
RemovesDetached == call'.op = "remove" /\ st.parent[call'.self] = None

\* C35: remove() on an element that is already detached does not fail and
\* changes nothing, for schema elements, directive applications and extension
\* members alike.
C35_RemoveDetached ==
  [][RemovesDetached => st'.exc = None /\ ChangesNothing]_vars

(***************************************************************************)
(* C36: extensions and the members marked with them                        *)
(***************************************************************************)
\* What the step leaves of the extensions: who has which, and which member
\* is marked with which.
ExtensionState(h) ==
  [extensions |-> h.extensions, extendedElement |-> h.extendedElement,
   extension |-> h.extension]

\* The step is t.addExtension(x), x being already in the extensions of t.
AddsOwnExtension ==
  /\ call'.op = "addExtension"
  /\ call'.arg[1] \in st.extensions[call'.self]

\* The step is t.addExtension(x), x being an extension of another element.
AddsForeignExtension ==
  /\ call'.op = "addExtension"
  /\ st.extendedElement[call'.arg[1]] \notin {None, call'.self}

\* The step is m.setOfExtension(x), x being an extension that the parent of m
\* does not have (or m having no parent).
MarksWithForeignExtension ==
  /\ call'.op = "setOfExtension"
  /\ call'.arg[1] # None
  /\ IF st.parent[call'.self] \in Extendable
     THEN call'.arg[1] \notin st.extensions[st.parent[call'.self]]
     ELSE TRUE

SameOrRequired(h, expected, found) ==
  \/ h.type[found] = h.type[expected]
  \/ /\ ~isNonNullType(h.type[expected])
     /\ h.type[found] = NonNullType(baseType(h.type[expected]))

\* The redefinition of built-in directive b in schema s differs from b at
\* most in arguments made required: the same number of arguments, each of the
\* same name with the same or the required type; an argument made required
\* has no default value or the built-in's, the others have the built-in's.
OnlyMadeRequired(h, s, b) ==
  /\ Len(h.args[RedefinitionOf(h, s, b)]) = Len(h.args[b])
  /\ \A a \in Range(MapValues(h.args[b])) :
       LET found == MapGet(h.args[RedefinitionOf(h, s, b)], ConstructedName[a])
       IN /\ found # None
          /\ h.type[found] # NoType
          /\ SameOrRequired(h, a, found)
          /\ IF h.type[found] = h.type[a]
             THEN h.defaultValue[found] = h.defaultValue[a]
             ELSE h.defaultValue[found] \in {None, h.defaultValue[a]}

\* C37: validate() of a schema that is not validated and for which the
\* rule-checker reports nothing: when every redefined built-in directive
\* differs from the built-in at most in optional arguments made required,
\* with or without a default value, no error about an argument is collected.
C37_RequiredRedefinition ==
  [][(/\ call'.op = "validate" /\ call'.arg = <<>> /\ ~st.isValidated[call'.self]
      /\ \A b \in RedefinedBuiltIns(st, call'.self) :
           OnlyMadeRequired(st, call'.self, b))
     => /\ Range(onValidation(st, call'.self))
             \cap {"arguments", "argumentType", "argumentDefault"} = {}
        /\ Range(st'.causes) \cap {"arguments", "argumentType", "argumentDefault"} = {}]_vars

\* The built-in object types of schema s that have a user redefinition of the
\* same kind, and that redefinition.
RedefinedObjects(h, s) ==
  {b \in Range(MapValues(h.builtInTypes[s])) :
     /\ KindOf(b) = "ObjectType"
     /\ ~IsBuiltIn(SchemaType(h, s, h.name[b]))
     /\ KindOf(SchemaType(h, s, h.name[b])) = "ObjectType"}

\* The default fields of built-in object type b: those registered with
\* addBuiltInField (every field of b but __typename).
DefaultFields(h, b) ==
  {f \in Range(MapValues(h.fields[b])) : ConstructedName[f] # typenameFieldName}

\* Redefinition r lacks default field f, or gives it a type that is neither
\* the default type nor that type made non-null.
LacksOrRetypes(h, r, f) ==
  \/ MapGet(h.fields[r], ConstructedName[f]) = None
  \/ ~SameOrRequired(h, f, MapGet(h.fields[r], ConstructedName[f]))

\* The mismatches between the built-ins of schema s and their redefinitions,
\* each independent of the others: a default field that is lacking, retyped
\* or has another number of arguments; for a directive, another number of
\* arguments or an argument of another type or default value, repeatability
\* newly enabled, locations outside the default's.
Mismatches(h, s) ==
  {bf \in RedefinedObjects(h, s) \X FieldDefinitions :
     /\ bf[2] \in DefaultFields(h, bf[1])
     /\ \/ LacksOrRetypes(h, SchemaType(h, s, h.name[bf[1]]), bf[2])
        \/ Len(h.args[MapGet(h.fields[SchemaType(h, s, h.name[bf[1]])],
                             ConstructedName[bf[2]])])
             # Len(h.args[bf[2]])}
  \cup {<<b, "arguments">> : b \in {d \in RedefinedBuiltIns(h, s) : ~OnlyMadeRequired(h, s, d)}}
  \cup {<<b, "repeatable">> :
          b \in {d \in RedefinedBuiltIns(h, s) :
                   ~h.repeatable[d] /\ h.repeatable[RedefinitionOf(h, s, d)]}}
  \cup {<<b, "locations">> :
          b \in {d \in RedefinedBuiltIns(h, s) :
                   ~(Range(h.locations[RedefinitionOf(h, s, d)])
                       \subseteq Range(h.locations[d]))}}

\* C38: validate() of a schema that is not validated and for which the
\* rule-checker reports nothing collects one error for each mismatch between
\* a built-in and its redefinition, and fails with all of them when there is
\* one.
C38_EveryMismatchCollected ==
  [][(call'.op = "validate" /\ call'.arg = <<>> /\ ~st.isValidated[call'.self])
     => /\ Len(onValidation(st, call'.self)) = Cardinality(Mismatches(st, call'.self))
        /\ Len(st'.causes) = Cardinality(Mismatches(st, call'.self))
        /\ Mismatches(st, call'.self) # {} => st'.exc = "validation"]_vars

\* C39: validate() of a schema that is not validated and for which the
\* rule-checker reports nothing: when the redefinition of a built-in object
\* type lacks a default field that addBuiltInField registered, or gives it a
\* type that is neither the default type nor that type made non-null, an
\* error about the redefinition is collected and validate fails with it.
C39_BuiltInFieldsCompared ==
  [][(/\ call'.op = "validate" /\ call'.arg = <<>> /\ ~st.isValidated[call'.self]
      /\ \E b \in RedefinedObjects(st, call'.self) :
           \E f \in DefaultFields(st, b) :
             LacksOrRetypes(st, SchemaType(st, call'.self, st.name[b]), f))
     => /\ Range(onValidation(st, call'.self)) \cap {"missingField", "fieldType"} # {}
        /\ st'.exc = "validation"
        /\ Range(st'.causes) \cap {"missingField", "fieldType"} # {}]_vars

(***************************************************************************)
(* C40: membership by name and the member lists                            *)
(***************************************************************************)
\* Types a and b are types of the same schema.
InOneSchema(h, a, b) == h.parent[a] \in Schemas /\ h.parent[b] = h.parent[a]

\* C40: whatever the types of a schema have been renamed to, a union has an
\* object type of its schema as member by hasTypeMember exactly when the type
\* is among its types(), an object or interface type implements an interface
\* of its schema by implementsInterface exactly when the interface is among
\* its interfaces(), and once a type has been removed no union lists it and
\* no type implements it.
C40_RenamedMembership ==
  [][/\ \A u \in UnionTypes, t \in ObjectTypes :
          InOneSchema(st', u, t)
            => (hasTypeMember(st', u, t) <=> t \in memberTypes(st', u))
     /\ \A x \in FieldBasedTypes, itf \in InterfaceTypes :
          InOneSchema(st', x, itf)
            => (implementsInterface(st', x, itf) <=> itf \in interfaces(st', x))
     /\ (/\ call'.op = "remove" /\ call'.form = "type"
         /\ st.parent[call'.self] \in Schemas /\ st'.exc = None)
          => /\ \A u \in UnionTypes : call'.self \notin memberTypes(st', u)
             /\ \A x \in FieldBasedTypes : call'.self \notin interfaces(st', x)]_vars
====
